---- MODULE Spec2Model ----
(***************************************************************************)
(* A model of the position-independent 64-bit integer types of cpp-pic:    *)
(* UINT64 (include/runtime/primitives/uint64.h) and INT64 (int64.h), each  *)
(* a pair of 32-bit words with every operator built from 32-bit            *)
(* arithmetic.                                                             *)
(*                                                                         *)
(* TLC's integers are 32-bit signed, so a 32-bit machine word is kept as   *)
(* the pair <<upper 16 bits, lower 16 bits>> and the built-in UINT32 and   *)
(* INT32 operators of C++ are written out on that pair with their real     *)
(* width.  INT32 shares the bit pattern of UINT32; its arithmetic is the   *)
(* two's-complement instruction clang emits (primitives.h admits no other  *)
(* compiler), its order and its right shift are the signed ones.           *)
(***************************************************************************)
EXTENDS Integers, Sequences, FiniteSets, TLC

VARIABLES cls, op, a, b, v, s, ret, self, cmp, lit, res, rel, dbl

\* the variables of the integer operators
intVars == <<cls, op, a, b, v, s, ret, self, cmp>>

\* the variables of the other components: lit is the packed literal, res the
\* symbol resolver with the module list it reads, rel the payload with its
\* relocation data and the position of its entry point, dbl the last call
\* on a DOUBLE
others == <<lit, res, rel, dbl>>

vars == <<intVars, others>>

(***************************************************************************)
(* 32-bit machine words                                                    *)
(***************************************************************************)
Half == 0 .. \hFFFF

\* UINT32 / INT32 bit pattern w: w[1] = bits 31..16, w[2] = bits 15..0
Word(hi, lo) == <<hi, lo>>

W0 == Word(0, 0)
W1 == Word(0, 1)
WMask16 == Word(0, \hFFFF)
WAllOnes == Word(\hFFFF, \hFFFF)

\* a small non-negative int literal as a word
Lit(n) == Word(0, n)

\* unsigned x + y, modulo 2^32
Add32(x, y) ==
    LET lo == x[2] + y[2]
    IN  Word((x[1] + y[1] + lo \div \h10000) % \h10000, lo % \h10000)

\* unsigned x - y, modulo 2^32
Sub32(x, y) ==
    LET lo == x[2] - y[2]
        bw == IF lo < 0 THEN 1 ELSE 0
    IN  Word((x[1] - y[1] - bw + \h20000) % \h10000, (lo + \h10000) % \h10000)

\* the full 32-bit product of two 16-bit quantities, through 8-bit pieces
Mul16(x, y) ==
    LET x0 == x % 256
        x1 == x \div 256
        y0 == y % 256
        y1 == y \div 256
        mid == x1 * y0 + x0 * y1
        low == x0 * y0 + (mid % 256) * 256
    IN  Word(x1 * y1 + mid \div 256 + low \div \h10000, low % \h10000)

\* unsigned x * y, modulo 2^32
Mul32(x, y) ==
    LET p == Mul16(x[2], y[2])
    IN  Word((p[1] + Mul16(x[1], y[2])[2] + Mul16(x[2], y[1])[2]) % \h10000, p[2])

\* x << k for 0 <= k <= 31 (the sources never shift a word by more)
Shl32(x, k) ==
    IF k >= 16
    THEN Word((x[2] % 2^(32 - k)) * 2^(k - 16), 0)
    ELSE Word((x[1] % 2^(16 - k)) * 2^k + x[2] \div 2^(16 - k),
              (x[2] % 2^(16 - k)) * 2^k)

\* logical x >> k for 0 <= k <= 31 (UINT32)
Shr32(x, k) ==
    IF k >= 16
    THEN Word(0, x[1] \div 2^(k - 16))
    ELSE Word(x[1] \div 2^k, (x[1] % 2^k) * 2^(16 - k) + x[2] \div 2^k)

\* INT32 x < 0
Neg32(x) == x[1] >= \h8000

\* arithmetic x >> k for 0 <= k <= 31 (INT32): the sign bit fills
Sar32(x, k) ==
    LET fill == IF Neg32(x) THEN \hFFFF ELSE 0
    IN  IF k >= 16
        THEN Word(fill, (fill % 2^(k - 16)) * 2^(32 - k) + x[1] \div 2^(k - 16))
        ELSE Word((fill % 2^k) * 2^(16 - k) + x[1] \div 2^k,
                  (x[1] % 2^k) * 2^(16 - k) + x[2] \div 2^k)

RECURSIVE And16(_, _)
And16(x, y) ==
    IF x = 0 \/ y = 0 THEN 0
    ELSE (x % 2) * (y % 2) + 2 * And16(x \div 2, y \div 2)

RECURSIVE Or16(_, _)
Or16(x, y) ==
    IF x = 0 THEN y
    ELSE IF y = 0 THEN x
    ELSE (IF x % 2 = 1 \/ y % 2 = 1 THEN 1 ELSE 0) + 2 * Or16(x \div 2, y \div 2)

And32(x, y) == Word(And16(x[1], y[1]), And16(x[2], y[2]))
Or32(x, y) == Word(Or16(x[1], y[1]), Or16(x[2], y[2]))
Xor32(x, y) ==
    Word(x[1] + y[1] - 2 * And16(x[1], y[1]), x[2] + y[2] - 2 * And16(x[2], y[2]))
Not32(x) == Word(\hFFFF - x[1], \hFFFF - x[2])

\* unsigned order of two words
Lt32(x, y) == x[1] < y[1] \/ (x[1] = y[1] /\ x[2] < y[2])
Gt32(x, y) == Lt32(y, x)
Ge32(x, y) == ~Lt32(x, y)
Le32(x, y) == ~Lt32(y, x)

\* signed (INT32) order of two words
SLt32(x, y) ==
    IF Neg32(x) # Neg32(y) THEN Neg32(x) ELSE Lt32(x, y)
SGt32(x, y) == SLt32(y, x)

(***************************************************************************)
(* UINT64: uint64.h                                                        *)
(***************************************************************************)
\* constexpr UINT64(UINT32 h, UINT32 l)
UINT64(h, l) == [high |-> h, low |-> l]

\* explicit UINT64(UINT32 val): the high word is zero
UINT64_FromUINT32(val) == UINT64(W0, val)

\* UINT64(unsigned long long val) applied to (unsigned long long)val of an
\* int val: the conversion sign-extends, so the high word is all ones for a
\* negative val
UINT64_FromInt(val) == UINT64(IF Neg32(val) THEN WAllOnes ELSE W0, val)

\* DEFINE_INT64_COMPARISON_OPERATORS(UINT64): high and low are UINT32
UINT64_OpEq(this, other) == this.low = other.low /\ this.high = other.high

UINT64_OpNe(this, other) == ~UINT64_OpEq(this, other)

UINT64_OpLt(this, other) ==
    IF this.high # other.high
    THEN Lt32(this.high, other.high)
    ELSE Lt32(this.low, other.low)

UINT64_OpLe(this, other) ==
    IF this.high # other.high
    THEN Lt32(this.high, other.high)
    ELSE Le32(this.low, other.low)

UINT64_OpGt(this, other) ==
    IF this.high # other.high
    THEN Gt32(this.high, other.high)
    ELSE Gt32(this.low, other.low)

\* a faulty operator>= that compares the low words with > (C3 must fail on it)
UINT64_OpGe_Strict(this, other) ==
    IF this.high # other.high
    THEN Gt32(this.high, other.high)
    ELSE Gt32(this.low, other.low)

\* DEFINE_INT64_COMPARISON_OPERATORS(UINT64): operator>= (high is UINT32)
UINT64_OpGe(this, other) ==
    IF this.high # other.high
    THEN Gt32(this.high, other.high)
    ELSE Ge32(this.low, other.low)

UINT64_OpAdd(this, other) ==
    LET newLow == Add32(this.low, other.low)
        carry == IF Lt32(newLow, this.low) THEN W1 ELSE W0
        newHigh == Add32(Add32(this.high, other.high), carry)
    IN  UINT64(newHigh, newLow)

\* a faulty operator- that forgets the borrow (C6 must fail on it)
UINT64_OpSub_NoBorrow(this, other) ==
    UINT64(Sub32(this.high, other.high), Sub32(this.low, other.low))

UINT64_OpSub(this, other) ==
    LET newLow == Sub32(this.low, other.low)
        borrow == IF Lt32(this.low, other.low) THEN W1 ELSE W0
        newHigh == Sub32(Sub32(this.high, other.high), borrow)
    IN  UINT64(newHigh, newLow)

\* a faulty operator* that drops the carry out of sum1 (C2 must fail on it)
UINT64_OpMul_LostCarry(this, other) ==
    LET a0 == And32(this.low, WMask16)
        a1 == Shr32(this.low, 16)
        a2 == And32(this.high, WMask16)
        a3 == Shr32(this.high, 16)
        b0 == And32(other.low, WMask16)
        b1 == Shr32(other.low, 16)
        b2 == And32(other.high, WMask16)
        b3 == Shr32(other.high, 16)
        p0 == Mul32(a0, b0)
        p1 == Mul32(a1, b0)
        p2 == Mul32(a0, b1)
        p3 == Mul32(a2, b0)
        p4 == Mul32(a1, b1)
        p5 == Mul32(a0, b2)
        p6 == Mul32(a3, b0)
        p7 == Mul32(a2, b1)
        p8 == Mul32(a1, b2)
        p9 == Mul32(a0, b3)
        r0 == And32(p0, WMask16)
        carry0 == Shr32(p0, 16)
        sum1 == Add32(Add32(carry0, And32(p1, WMask16)), And32(p2, WMask16))
        r1 == And32(sum1, WMask16)
        carry1 == Shr32(sum1, 16)
        sum2 == Add32(Add32(Add32(Add32(Add32(W0, Shr32(p1, 16)),
                        Shr32(p2, 16)), And32(p3, WMask16)),
                        And32(p4, WMask16)), And32(p5, WMask16))
        r2 == And32(sum2, WMask16)
        carry2 == Shr32(sum2, 16)
        sum3 == Add32(Add32(Add32(Add32(Add32(Add32(Add32(carry2, Shr32(p3, 16)),
                        Shr32(p4, 16)), Shr32(p5, 16)), And32(p6, WMask16)),
                        And32(p7, WMask16)), And32(p8, WMask16)),
                        And32(p9, WMask16))
        r3 == And32(sum3, WMask16)
        resultLow == Or32(r0, Shl32(r1, 16))
        resultHigh == Or32(r2, Shl32(r3, 16))
    IN  UINT64(resultHigh, resultLow)

UINT64_OpMul(this, other) ==
    LET a0 == And32(this.low, WMask16)
        a1 == Shr32(this.low, 16)
        a2 == And32(this.high, WMask16)
        a3 == Shr32(this.high, 16)
        b0 == And32(other.low, WMask16)
        b1 == Shr32(other.low, 16)
        b2 == And32(other.high, WMask16)
        b3 == Shr32(other.high, 16)
        p0 == Mul32(a0, b0)
        p1 == Mul32(a1, b0)
        p2 == Mul32(a0, b1)
        p3 == Mul32(a2, b0)
        p4 == Mul32(a1, b1)
        p5 == Mul32(a0, b2)
        p6 == Mul32(a3, b0)
        p7 == Mul32(a2, b1)
        p8 == Mul32(a1, b2)
        p9 == Mul32(a0, b3)
        r0 == And32(p0, WMask16)
        carry0 == Shr32(p0, 16)
        sum1 == Add32(Add32(carry0, And32(p1, WMask16)), And32(p2, WMask16))
        r1 == And32(sum1, WMask16)
        carry1 == Shr32(sum1, 16)
        sum2 == Add32(Add32(Add32(Add32(Add32(carry1, Shr32(p1, 16)),
                        Shr32(p2, 16)), And32(p3, WMask16)),
                        And32(p4, WMask16)), And32(p5, WMask16))
        r2 == And32(sum2, WMask16)
        carry2 == Shr32(sum2, 16)
        sum3 == Add32(Add32(Add32(Add32(Add32(Add32(Add32(carry2, Shr32(p3, 16)),
                        Shr32(p4, 16)), Shr32(p5, 16)), And32(p6, WMask16)),
                        And32(p7, WMask16)), And32(p8, WMask16)),
                        And32(p9, WMask16))
        r3 == And32(sum3, WMask16)
        resultLow == Or32(r0, Shl32(r1, 16))
        resultHigh == Or32(r2, Shl32(r3, 16))
    IN  UINT64(resultHigh, resultLow)

\* a faulty read of bit i that takes bit 32 from the low word (C7 must fail
\* on it)
DividendBit_OffByOne(this, i) ==
    IF i > 32
    THEN And32(Shr32(this.high, i - 32), W1) # W0
    ELSE And32(Shr32(this.low, i % 32), W1) # W0

\* bit i of this, as the loops of operator/ and operator% read it
DividendBit(this, i) ==
    IF i >= 32
    THEN And32(Shr32(this.high, i - 32), W1) # W0
    ELSE And32(Shr32(this.low, i), W1) # W0
\* a faulty shift of the remainder that does not carry bit 31 of the low
\* word into the high word (C30 must fail on it)
ShiftInBit_NoCarry(this, i, remainder) ==
    LET shifted == UINT64(Shl32(remainder.high, 1), Shl32(remainder.low, 1))
    IN  IF DividendBit(this, i)
        THEN [shifted EXCEPT !.low = Or32(@, W1)]
        ELSE shifted

\* the remainder shifted left by one with bit i of this injected
ShiftInBit(this, i, remainder) ==
    LET shifted == UINT64(Or32(Shl32(remainder.high, 1), Shr32(remainder.low, 31)),
                          Shl32(remainder.low, 1))
    IN  IF DividendBit(this, i)
        THEN [shifted EXCEPT !.low = Or32(@, W1)]
        ELSE shifted

\* one iteration of the loop of operator/ on its variables
\* st = [i, quotient, remainder], the i-- of the for statement included
DivStep(this, other, st) ==
    LET rem == ShiftInBit(this, st.i, st.remainder)
    IN  IF UINT64_OpGe(rem, other)
        THEN [i |-> st.i - 1,
              quotient |-> IF st.i >= 32
                           THEN [st.quotient EXCEPT !.high = Or32(@, Shl32(W1, st.i - 32))]
                           ELSE [st.quotient EXCEPT !.low = Or32(@, Shl32(W1, st.i))],
              remainder |-> UINT64_OpSub(rem, other)]
        ELSE [i |-> st.i - 1, quotient |-> st.quotient, remainder |-> rem]

\* the for statement of operator/ from the loop variables st on, as far as
\* i >= stop
RECURSIVE DivLoop(_, _, _, _)
DivLoop(this, other, st, stop) ==
    IF st.i >= stop THEN DivLoop(this, other, DivStep(this, other, st), stop) ELSE st

\* for (int i = 63; i >= 0; i--), evaluated in four stretches of sixteen
\* iterations (TLC recurses once per iteration, and sixty-four nested
\* evaluations inside a larger expression exhaust its stack)
DivLoopAll(this, other) ==
    DivLoop(this, other,
        DivLoop(this, other,
            DivLoop(this, other,
                DivLoop(this, other,
                    [i |-> 63, quotient |-> UINT64(W0, W0), remainder |-> UINT64(W0, W0)],
                    48),
                32),
            16),
        0)

\* a faulty operator/ without the test for a zero divisor (C4 must fail on it)
UINT64_OpDiv_NoZeroCheck(this, other) == DivLoopAll(this, other).quotient

UINT64_OpDiv(this, other) ==
    IF other.high = W0 /\ other.low = W0
    THEN UINT64(W0, W0)
    ELSE DivLoopAll(this, other).quotient

\* one iteration of the loop of operator% on its variables st = [i, remainder]
ModStep(this, other, st) ==
    LET rem == ShiftInBit(this, st.i, st.remainder)
    IN  [i |-> st.i - 1,
         remainder |-> IF UINT64_OpGe(rem, other) THEN UINT64_OpSub(rem, other) ELSE rem]

\* the for statement of operator% from the loop variables st on, as far as
\* i >= stop
RECURSIVE ModLoop(_, _, _, _)
ModLoop(this, other, st, stop) ==
    IF st.i >= stop THEN ModLoop(this, other, ModStep(this, other, st), stop) ELSE st

\* for (int i = 63; i >= 0; i--), in four stretches as for operator/
ModLoopAll(this, other) ==
    ModLoop(this, other,
        ModLoop(this, other,
            ModLoop(this, other,
                ModLoop(this, other, [i |-> 63, remainder |-> UINT64(W0, W0)], 48),
                32),
            16),
        0)

UINT64_OpMod(this, other) ==
    IF other.high = W0 /\ other.low = W0
    THEN UINT64(W0, W0)
    ELSE ModLoopAll(this, other).remainder

\* operator%(UINT32 val), operator%(int val)
UINT64_OpModUINT32(this, val) == UINT64_OpMod(this, UINT64_FromUINT32(val))
UINT64_OpModInt(this, val) == UINT64_OpMod(this, UINT64_FromInt(val))

\* operator/(UINT32 val), operator/(int val)
UINT64_OpDivUINT32(this, val) ==
    IF val = W0 THEN UINT64(W0, W0) ELSE UINT64_OpDiv(this, UINT64_FromUINT32(val))
UINT64_OpDivInt(this, val) == UINT64_OpDiv(this, UINT64_FromInt(val))

UINT64_OpShl(this, shift) ==
    IF shift < 0 \/ shift >= 64 THEN UINT64(W0, W0)
    ELSE IF shift = 0 THEN this
    ELSE IF shift >= 32 THEN UINT64(Shl32(this.low, shift - 32), W0)
    ELSE UINT64(Or32(Shl32(this.high, shift), Shr32(this.low, 32 - shift)),
                Shl32(this.low, shift))

\* a faulty operator>> that loses the bits crossing from the high word into
\* the low word (C9 must fail on it)
UINT64_OpShr_NoCross(this, shift) ==
    IF shift < 0 \/ shift >= 64 THEN UINT64(W0, W0)
    ELSE IF shift = 0 THEN this
    ELSE IF shift >= 32 THEN UINT64(W0, Shr32(this.high, shift - 32))
    ELSE UINT64(Shr32(this.high, shift), Shr32(this.low, shift))

UINT64_OpShr(this, shift) ==
    IF shift < 0 \/ shift >= 64 THEN UINT64(W0, W0)
    ELSE IF shift = 0 THEN this
    ELSE IF shift >= 32 THEN UINT64(W0, Shr32(this.high, shift - 32))
    ELSE UINT64(Shr32(this.high, shift),
                Or32(Shr32(this.low, shift), Shl32(this.high, 32 - shift)))

\* operator/=, operator%=: *this = *this / other, the new value of *this
UINT64_OpDivAssign(this, other) == UINT64_OpDiv(this, other)
UINT64_OpModAssign(this, other) == UINT64_OpMod(this, other)

\* operator+(UINT32 val), operator-(UINT32 val)
UINT64_OpAddUINT32(this, val) ==
    LET newLow == Add32(this.low, val)
        carry == IF Lt32(newLow, this.low) THEN W1 ELSE W0
    IN  UINT64(Add32(this.high, carry), newLow)

UINT64_OpSubUINT32(this, val) ==
    LET newLow == Sub32(this.low, val)
        borrow == IF Lt32(this.low, val) THEN W1 ELSE W0
    IN  UINT64(Sub32(this.high, borrow), newLow)

\* a faulty operator*(UINT32 val) that leaves high * val out of the high
\* word (C25 must fail on it)
UINT64_OpMulUINT32_LowOnly(this, val) ==
    LET wide == UINT64_OpMul(UINT64(W0, this.low), UINT64(W0, val))
    IN  UINT64(wide.high, wide.low)

\* operator*(UINT32 val)
UINT64_OpMulUINT32(this, val) ==
    LET a0 == And32(this.low, WMask16)
        a1 == Shr32(this.low, 16)
        b0 == And32(val, WMask16)
        b1 == Shr32(val, 16)
        p0 == Mul32(a0, b0)
        p1 == Mul32(a1, b0)
        p2 == Mul32(a0, b1)
        p3 == Mul32(a1, b1)
        r0 == And32(p0, WMask16)
        carry0 == Shr32(p0, 16)
        sum1 == Add32(Add32(carry0, And32(p1, WMask16)), And32(p2, WMask16))
        r1 == And32(sum1, WMask16)
        carry1 == Shr32(sum1, 16)
        sum2 == Add32(Add32(Add32(carry1, Shr32(p1, 16)), Shr32(p2, 16)),
                      And32(p3, WMask16))
        r2 == And32(sum2, WMask16)
        carry2 == Shr32(sum2, 16)
        r3 == Add32(carry2, Shr32(p3, 16))
        resultLow == Or32(r0, Shl32(r1, 16))
        lowHigh == Or32(r2, Shl32(r3, 16))
        highPart == Add32(Mul32(this.high, val), lowHigh)
    IN  UINT64(highPart, resultLow)

\* operator<, <=, >, >=, ==, != with a UINT32 val
UINT64_OpLtUINT32(this, val) == IF this.high = W0 THEN Lt32(this.low, val) ELSE FALSE
UINT64_OpLeUINT32(this, val) == IF this.high = W0 THEN Le32(this.low, val) ELSE FALSE
UINT64_OpGtUINT32(this, val) == IF this.high # W0 THEN TRUE ELSE Gt32(this.low, val)
UINT64_OpGeUINT32(this, val) == IF this.high # W0 THEN TRUE ELSE Ge32(this.low, val)
UINT64_OpEqUINT32(this, val) == this.high = W0 /\ this.low = val
UINT64_OpNeUINT32(this, val) == this.high # W0 \/ this.low # val

\* operator==(int val), operator!=(int val): low is compared with
\* (UINT32)(unsigned long long)val, the low 32 bits of val, and high with 0
UINT64_OpEqInt(this, val) == this.high = W0 /\ this.low = val
UINT64_OpNeInt(this, val) == this.high # W0 \/ this.low # val

\* DEFINE_INT64_BITWISE_OPERATORS(UINT64)
UINT64_OpAnd(this, other) ==
    UINT64(And32(this.high, other.high), And32(this.low, other.low))
UINT64_OpOr(this, other) ==
    UINT64(Or32(this.high, other.high), Or32(this.low, other.low))
UINT64_OpXor(this, other) ==
    UINT64(Xor32(this.high, other.high), Xor32(this.low, other.low))
UINT64_OpNot(this) == UINT64(Not32(this.high), Not32(this.low))

\* operator&(UINT32 val), operator&(int val), operator|(UINT32 val),
\* operator^(UINT32 val)
UINT64_OpAndUINT32(this, val) == UINT64_OpAnd(this, UINT64_FromUINT32(val))
UINT64_OpAndInt(this, val) == UINT64_OpAnd(this, UINT64_FromInt(val))
UINT64_OpOrUINT32(this, val) == UINT64_OpOr(this, UINT64_FromUINT32(val))
UINT64_OpXorUINT32(this, val) == UINT64_OpXor(this, UINT64_FromUINT32(val))

\* operator+=, operator-=: the new value of *this
UINT64_OpAddAssign(this, other) ==
    LET newLow == Add32(this.low, other.low)
        carry == IF Lt32(newLow, this.low) THEN W1 ELSE W0
    IN  [low |-> newLow, high |-> Add32(Add32(this.high, other.high), carry)]

UINT64_OpSubAssign(this, other) ==
    LET newLow == Sub32(this.low, other.low)
        borrow == IF Lt32(this.low, other.low) THEN W1 ELSE W0
    IN  [low |-> newLow, high |-> Sub32(Sub32(this.high, other.high), borrow)]

\* operator*=: *this = *this * other
UINT64_OpMulAssign(this, other) == UINT64_OpMul(this, other)

\* DEFINE_INT64_BITWISE_ASSIGNMENTS(UINT64): high op= other.high;
\* low op= other.low
UINT64_OpAndAssign(this, other) ==
    [high |-> And32(this.high, other.high), low |-> And32(this.low, other.low)]
UINT64_OpOrAssign(this, other) ==
    [high |-> Or32(this.high, other.high), low |-> Or32(this.low, other.low)]
UINT64_OpXorAssign(this, other) ==
    [high |-> Xor32(this.high, other.high), low |-> Xor32(this.low, other.low)]

\* operator<<=(int shift): the new value of *this
UINT64_OpShlAssign(this, shift) ==
    IF shift < 0 \/ shift >= 64 THEN [high |-> W0, low |-> W0]
    ELSE IF shift = 0 THEN this
    ELSE IF shift >= 32 THEN [high |-> Shl32(this.low, shift - 32), low |-> W0]
    ELSE [high |-> Or32(Shl32(this.high, shift), Shr32(this.low, 32 - shift)),
          low |-> Shl32(this.low, shift)]

\* a faulty operator>>= that forgets to clear the high word for
\* 32 <= shift < 64 (C27 must fail on it)
UINT64_OpShrAssign_KeepsHigh(this, shift) ==
    IF shift < 0 \/ shift >= 64 THEN [high |-> W0, low |-> W0]
    ELSE IF shift = 0 THEN this
    ELSE IF shift >= 32
    THEN [low |-> Shr32(this.high, shift - 32), high |-> this.high]
    ELSE [low |-> Or32(Shr32(this.low, shift), Shl32(this.high, 32 - shift)),
          high |-> Shr32(this.high, shift)]

\* operator>>=(int shift): the new value of *this
UINT64_OpShrAssign(this, shift) ==
    IF shift < 0 \/ shift >= 64 THEN [high |-> W0, low |-> W0]
    ELSE IF shift = 0 THEN this
    ELSE IF shift >= 32 THEN [low |-> Shr32(this.high, shift - 32), high |-> W0]
    ELSE [low |-> Or32(Shr32(this.low, shift), Shl32(this.high, 32 - shift)),
          high |-> Shr32(this.high, shift)]

\* DEFINE_INT64_INCREMENT_DECREMENT(UINT64): operator++() and operator--(),
\* the new value of *this (the prefix forms return it, the postfix forms
\* return the value before)
UINT64_OpPreInc(this) ==
    LET newLow == Add32(this.low, W1)
    IN  [low |-> newLow,
         high |-> IF newLow = W0 THEN Add32(this.high, W1) ELSE this.high]

UINT64_OpPreDec(this) ==
    [low |-> Sub32(this.low, W1),
     high |-> IF this.low = W0 THEN Sub32(this.high, W1) ELSE this.high]

(***************************************************************************)
(* INT64: int64.h.  low is a UINT32, high an INT32.                        *)
(***************************************************************************)
\* constexpr INT64(INT32 h, UINT32 l)
INT64(h, l) == [high |-> h, low |-> l]

\* INT64(INT32 val): low((UINT32)val), high(val < 0 ? -1 : 0)
INT64_FromINT32(val) == INT64(IF Neg32(val) THEN WAllOnes ELSE W0, val)

\* DEFINE_INT64_COMPARISON_OPERATORS(INT64): high is an INT32 and is
\* compared as one, low is a UINT32
INT64_OpEq(this, other) == this.low = other.low /\ this.high = other.high

INT64_OpNe(this, other) == ~INT64_OpEq(this, other)

\* a faulty operator< that compares the high words as unsigned ones (C11
\* must fail on it)
INT64_OpLt_UnsignedHigh(this, other) ==
    IF this.high # other.high
    THEN Lt32(this.high, other.high)
    ELSE Lt32(this.low, other.low)

INT64_OpLt(this, other) ==
    IF this.high # other.high
    THEN SLt32(this.high, other.high)
    ELSE Lt32(this.low, other.low)

INT64_OpLe(this, other) ==
    IF this.high # other.high
    THEN SLt32(this.high, other.high)
    ELSE Le32(this.low, other.low)

INT64_OpGt(this, other) ==
    IF this.high # other.high
    THEN SGt32(this.high, other.high)
    ELSE Gt32(this.low, other.low)

INT64_OpGe(this, other) ==
    IF this.high # other.high
    THEN SGt32(this.high, other.high)
    ELSE Ge32(this.low, other.low)

\* a faulty operator+ that forgets the carry (C1 must fail on it)
INT64_OpAdd_NoCarry(this, other) ==
    INT64(Add32(this.high, other.high), Add32(this.low, other.low))

INT64_OpAdd(this, other) ==
    LET newLow == Add32(this.low, other.low)
        carry == IF Lt32(newLow, this.low) THEN W1 ELSE W0
        newHigh == Add32(Add32(this.high, other.high), carry)
    IN  INT64(newHigh, newLow)

INT64_OpSub(this, other) ==
    LET newLow == Sub32(this.low, other.low)
        borrow == IF Lt32(this.low, other.low) THEN W1 ELSE W0
        newHigh == Sub32(Sub32(this.high, other.high), borrow)
    IN  INT64(newHigh, newLow)

\* unary minus
INT64_OpNeg(this) == INT64_OpSub(INT64(W0, W0), this)
\* a faulty operator* that multiplies the absolute values and leaves the
\* sign of the product out (C22 must fail on it)
INT64_OpMul_Magnitudes(this, other) ==
    LET x == IF Neg32(this.high) THEN INT64_OpNeg(this) ELSE this
        y == IF Neg32(other.high) THEN INT64_OpNeg(other) ELSE other
        result == UINT64_OpMul(UINT64(x.high, x.low), UINT64(y.high, y.low))
    IN  INT64(result.high, result.low)

INT64_OpMul(this, other) ==
    LET x == UINT64(this.high, this.low)
        y == UINT64(other.high, other.low)
        result == UINT64_OpMul(x, y)
    IN  INT64(result.high, result.low)
\* a faulty operator/ that rounds a negative inexact quotient away from zero,
\* toward minus infinity (C24 must fail on it)
INT64_OpDiv_Floor(this, other) ==
    IF other.high = W0 /\ other.low = W0
    THEN INT64(W0, W0)
    ELSE LET negResult == Neg32(this.high) # Neg32(other.high)
             absThis == IF Neg32(this.high) THEN INT64_OpNeg(this) ELSE this
             absOther == IF Neg32(other.high) THEN INT64_OpNeg(other) ELSE other
             dividend == UINT64(absThis.high, absThis.low)
             divisor == UINT64(absOther.high, absOther.low)
             quotient == UINT64_OpDiv(dividend, divisor)
             exact == UINT64_OpMod(dividend, divisor) = UINT64(W0, W0)
             result == INT64(quotient.high, quotient.low)
         IN  IF ~negResult THEN result
             ELSE IF exact THEN INT64_OpNeg(result)
             ELSE INT64_OpNeg(INT64_OpAdd(result, INT64(W0, W1)))

INT64_OpDiv(this, other) ==
    IF other.high = W0 /\ other.low = W0
    THEN INT64(W0, W0)
    ELSE LET negResult == Neg32(this.high) # Neg32(other.high)
             absThis == IF Neg32(this.high) THEN INT64_OpNeg(this) ELSE this
             absOther == IF Neg32(other.high) THEN INT64_OpNeg(other) ELSE other
             dividend == UINT64(absThis.high, absThis.low)
             divisor == UINT64(absOther.high, absOther.low)
             quotient == UINT64_OpDiv(dividend, divisor)
             result == INT64(quotient.high, quotient.low)
         IN  IF negResult THEN INT64_OpNeg(result) ELSE result

\* a faulty operator% that takes the remainder of the magnitudes and does
\* not give it the sign of the dividend (C5 must fail on it)
INT64_OpMod_Magnitudes(this, other) ==
    IF other.high = W0 /\ other.low = W0
    THEN INT64(W0, W0)
    ELSE LET absThis == IF Neg32(this.high) THEN INT64_OpNeg(this) ELSE this
             absOther == IF Neg32(other.high) THEN INT64_OpNeg(other) ELSE other
             remainder == UINT64_OpMod(UINT64(absThis.high, absThis.low),
                                       UINT64(absOther.high, absOther.low))
         IN  INT64(remainder.high, remainder.low)

INT64_OpMod(this, other) ==
    IF other.high = W0 /\ other.low = W0
    THEN INT64(W0, W0)
    ELSE LET quotient == INT64_OpDiv(this, other)
         IN  INT64_OpSub(this, INT64_OpMul(quotient, other))

\* operator%(INT32 val), operator/(INT32 val)
INT64_OpModINT32(this, val) == INT64_OpMod(this, INT64_FromINT32(val))
INT64_OpDivINT32(this, val) == INT64_OpDiv(this, INT64_FromINT32(val))

\* a faulty operator<< that loses the bits crossing from the low word into
\* the high word (C8 must fail on it)
INT64_OpShl_NoCross(this, shift) ==
    IF shift < 0 \/ shift >= 64 THEN INT64(W0, W0)
    ELSE IF shift = 0 THEN this
    ELSE IF shift >= 32 THEN INT64(Shl32(this.low, shift - 32), W0)
    ELSE INT64(Shl32(this.high, shift), Shl32(this.low, shift))

INT64_OpShl(this, shift) ==
    IF shift < 0 \/ shift >= 64 THEN INT64(W0, W0)
    ELSE IF shift = 0 THEN this
    ELSE IF shift >= 32 THEN INT64(Shl32(this.low, shift - 32), W0)
    ELSE INT64(Or32(Shl32(this.high, shift), Shr32(this.low, 32 - shift)),
               Shl32(this.low, shift))

\* a faulty operator>> that shifts the high word as an unsigned one (C10
\* must fail on it)
INT64_OpShr_Logical(this, shift) ==
    IF shift < 0 THEN this
    ELSE IF shift >= 64
    THEN INT64(IF Neg32(this.high) THEN WAllOnes ELSE W0,
               IF Neg32(this.high) THEN WAllOnes ELSE W0)
    ELSE IF shift = 0 THEN this
    ELSE IF shift >= 32
    THEN INT64(W0, Shr32(this.high, shift - 32))
    ELSE INT64(Shr32(this.high, shift),
               Or32(Shr32(this.low, shift), Shl32(this.high, 32 - shift)))

INT64_OpShr(this, shift) ==
    IF shift < 0 THEN this
    ELSE IF shift >= 64
    THEN INT64(IF Neg32(this.high) THEN WAllOnes ELSE W0,
               IF Neg32(this.high) THEN WAllOnes ELSE W0)
    ELSE IF shift = 0 THEN this
    ELSE IF shift >= 32
    THEN INT64(IF Neg32(this.high) THEN WAllOnes ELSE W0,
               Sar32(this.high, shift - 32))
    ELSE INT64(Sar32(this.high, shift),
               Or32(Shr32(this.low, shift), Shl32(this.high, 32 - shift)))

\* operator/=, operator%=: *this = *this / other, the new value of *this
INT64_OpDivAssign(this, other) == INT64_OpDiv(this, other)
INT64_OpModAssign(this, other) == INT64_OpMod(this, other)

\* operator<(INT32 val): *this < INT64(val)
INT64_OpLtINT32(this, val) == INT64_OpLt(this, INT64_FromINT32(val))

\* operator<=, >, >=, ==, != with an INT32 val: valHigh = val < 0 ? -1 : 0
INT64_OpLeINT32(this, val) ==
    LET valHigh == IF Neg32(val) THEN WAllOnes ELSE W0
    IN  IF this.high # valHigh THEN SLt32(this.high, valHigh)
        ELSE Le32(this.low, val)

INT64_OpGtINT32(this, val) ==
    LET valHigh == IF Neg32(val) THEN WAllOnes ELSE W0
    IN  IF this.high # valHigh THEN SGt32(this.high, valHigh)
        ELSE Gt32(this.low, val)

INT64_OpGeINT32(this, val) ==
    LET valHigh == IF Neg32(val) THEN WAllOnes ELSE W0
    IN  IF this.high # valHigh THEN SGt32(this.high, valHigh)
        ELSE Ge32(this.low, val)

INT64_OpEqINT32(this, val) ==
    LET valHigh == IF Neg32(val) THEN WAllOnes ELSE W0
    IN  this.high = valHigh /\ this.low = val

INT64_OpNeINT32(this, val) ==
    LET valHigh == IF Neg32(val) THEN WAllOnes ELSE W0
    IN  this.high # valHigh \/ this.low # val

\* operator+(INT32 val), operator-(INT32 val), operator*(INT32 val)
INT64_OpAddINT32(this, val) == INT64_OpAdd(this, INT64_FromINT32(val))
INT64_OpSubINT32(this, val) == INT64_OpSub(this, INT64_FromINT32(val))
INT64_OpMulINT32(this, val) == INT64_OpMul(this, INT64_FromINT32(val))

\* DEFINE_INT64_BITWISE_OPERATORS(INT64): the INT32 high words are combined
\* bit by bit like the UINT32 low words
INT64_OpAnd(this, other) ==
    INT64(And32(this.high, other.high), And32(this.low, other.low))
INT64_OpOr(this, other) ==
    INT64(Or32(this.high, other.high), Or32(this.low, other.low))
INT64_OpXor(this, other) ==
    INT64(Xor32(this.high, other.high), Xor32(this.low, other.low))
INT64_OpNot(this) == INT64(Not32(this.high), Not32(this.low))

\* operator+=, operator-=: the new value of *this
INT64_OpAddAssign(this, other) ==
    LET newLow == Add32(this.low, other.low)
        carry == IF Lt32(newLow, this.low) THEN W1 ELSE W0
    IN  [low |-> newLow, high |-> Add32(Add32(this.high, other.high), carry)]
\* a faulty operator-= that stores the new low word before it tests for the
\* borrow (C21 must fail on it)
INT64_OpSubAssign_BorrowAfter(this, other) ==
    LET newLow == Sub32(this.low, other.low)
        borrow == IF Lt32(newLow, other.low) THEN W1 ELSE W0
    IN  [low |-> newLow, high |-> Sub32(Sub32(this.high, other.high), borrow)]

INT64_OpSubAssign(this, other) ==
    LET newLow == Sub32(this.low, other.low)
        borrow == IF Lt32(this.low, other.low) THEN W1 ELSE W0
    IN  [low |-> newLow, high |-> Sub32(Sub32(this.high, other.high), borrow)]

\* operator*=: *this = *this * other
INT64_OpMulAssign(this, other) == INT64_OpMul(this, other)

\* DEFINE_INT64_BITWISE_ASSIGNMENTS(INT64)
INT64_OpAndAssign(this, other) ==
    [high |-> And32(this.high, other.high), low |-> And32(this.low, other.low)]
INT64_OpOrAssign(this, other) ==
    [high |-> Or32(this.high, other.high), low |-> Or32(this.low, other.low)]
INT64_OpXorAssign(this, other) ==
    [high |-> Xor32(this.high, other.high), low |-> Xor32(this.low, other.low)]

\* operator<<=(int shift): the new value of *this
INT64_OpShlAssign(this, shift) ==
    IF shift < 0 \/ shift >= 64 THEN [high |-> W0, low |-> W0]
    ELSE IF shift = 0 THEN this
    ELSE IF shift >= 32 THEN [high |-> Shl32(this.low, shift - 32), low |-> W0]
    ELSE [high |-> Or32(Shl32(this.high, shift), Shr32(this.low, 32 - shift)),
          low |-> Shl32(this.low, shift)]

\* operator>>=(int shift): the new value of *this; for shift >= 64 high is
\* assigned first and low from the new high, for 32 <= shift < 64 low is
\* assigned first, from the old high
INT64_OpShrAssign(this, shift) ==
    IF shift < 0 THEN this
    ELSE IF shift >= 64
    THEN LET high == IF Neg32(this.high) THEN WAllOnes ELSE W0
         IN  [high |-> high, low |-> IF Neg32(high) THEN WAllOnes ELSE W0]
    ELSE IF shift = 0 THEN this
    ELSE IF shift >= 32
    THEN [low |-> Sar32(this.high, shift - 32),
          high |-> IF Neg32(this.high) THEN WAllOnes ELSE W0]
    ELSE [low |-> Or32(Shr32(this.low, shift), Shl32(this.high, 32 - shift)),
          high |-> Sar32(this.high, shift)]

\* a faulty operator++() that carries into the high word when the low word
\* was zero (C23 must fail on it)
INT64_OpPreInc_CarryOnZero(this) ==
    [low |-> Add32(this.low, W1),
     high |-> IF this.low = W0 THEN Add32(this.high, W1) ELSE this.high]

\* DEFINE_INT64_INCREMENT_DECREMENT(INT64): operator++() and operator--(),
\* the new value of *this; ++high and --high are INT32 operations
INT64_OpPreInc(this) ==
    LET newLow == Add32(this.low, W1)
    IN  [low |-> newLow,
         high |-> IF newLow = W0 THEN Add32(this.high, W1) ELSE this.high]

INT64_OpPreDec(this) ==
    [low |-> Sub32(this.low, W1),
     high |-> IF this.low = W0 THEN Sub32(this.high, W1) ELSE this.high]

(***************************************************************************)
(* STACK_ARRAY_STORAGE<TChar, N>: platform.h.  A literal array packed byte *)
(* by byte into USIZE words.  A USIZE is kept as the pair (high, low) of   *)
(* 32-bit words; with 4-byte words high stays zero.  An element is kept as *)
(* the 32-bit word holding its bit pattern (U is UINT8, UINT16 or UINT32;  *)
(* the arithmetic on a UINT8 or UINT16 is done after promotion to int).    *)
(***************************************************************************)
\* sizeof(USIZE): unsigned long long on x86_64 and aarch64, unsigned int
\* elsewhere
WordBytesOf == {4, 8}

\* sizeof(TChar) for which UINT_OF_SIZE names a built-in unsigned type
CharBytesOf == {1, 2, 4}

\* (USIZE)x for a word x
USIZE(x) == [high |-> W0, low |-> x]

\* USIZE x << sh, x >> sh for 0 <= sh < 8 * WordBytes, ~x, x & y, x | y
USIZE_Shl(WordBytes, x, sh) ==
    IF WordBytes = 4 THEN [high |-> W0, low |-> Shl32(x.low, sh)]
    ELSE IF sh = 0 THEN x
    ELSE IF sh >= 32 THEN [high |-> Shl32(x.low, sh - 32), low |-> W0]
    ELSE [high |-> Or32(Shl32(x.high, sh), Shr32(x.low, 32 - sh)),
          low |-> Shl32(x.low, sh)]

USIZE_Shr(WordBytes, x, sh) ==
    IF WordBytes = 4 THEN [high |-> W0, low |-> Shr32(x.low, sh)]
    ELSE IF sh = 0 THEN x
    ELSE IF sh >= 32 THEN [high |-> W0, low |-> Shr32(x.high, sh - 32)]
    ELSE [high |-> Shr32(x.high, sh),
          low |-> Or32(Shr32(x.low, sh), Shl32(x.high, 32 - sh))]

USIZE_Not(WordBytes, x) ==
    [high |-> IF WordBytes = 4 THEN W0 ELSE Not32(x.high), low |-> Not32(x.low)]

USIZE_And(x, y) == [high |-> And32(x.high, y.high), low |-> And32(x.low, y.low)]

USIZE_Or(x, y) == [high |-> Or32(x.high, y.high), low |-> Or32(x.low, y.low)]

\* WordCount = (SizeBytes + WordBytes - 1) / WordBytes, SizeBytes = N * sizeof(TChar)
WordCount(WordBytes, CharBytes, N) ==
    (N * CharBytes + WordBytes - 1) \div WordBytes

\* words{}: every word zero
ZeroWords(WordBytes, CharBytes, N) ==
    [k \in 1 .. WordCount(WordBytes, CharBytes, N) |-> USIZE(W0)]
\* a faulty SetByte that counts the bytes of a word from its top end (C29
\* must fail on it)
SetByte_BigEndian(WordBytes, words, byteIndex, data) ==
    LET wi == byteIndex \div WordBytes
        sh == (WordBytes - 1 - (byteIndex % WordBytes)) * 8
        mask == USIZE_Shl(WordBytes, USIZE(Lit(\hFF)), sh)
    IN  [words EXCEPT ![wi + 1] =
            USIZE_Or(USIZE_And(@, USIZE_Not(WordBytes, mask)),
                     USIZE_Shl(WordBytes, USIZE(Lit(data)), sh))]

\* SetByte(byteIndex, v): words is indexed from 1 here
SetByte(WordBytes, words, byteIndex, data) ==
    LET wi == byteIndex \div WordBytes
        sh == (byteIndex % WordBytes) * 8
        mask == USIZE_Shl(WordBytes, USIZE(Lit(\hFF)), sh)
    IN  [words EXCEPT ![wi + 1] =
            USIZE_Or(USIZE_And(@, USIZE_Not(WordBytes, mask)),
                     USIZE_Shl(WordBytes, USIZE(Lit(data)), sh))]

\* a faulty GetByte that takes the byte's number in its word for the shift
\* count (C12 must fail on it)
GetByte_ShiftByIndex(WordBytes, words, byteIndex) ==
    LET wi == byteIndex \div WordBytes
        sh == byteIndex % WordBytes
    IN  USIZE_And(USIZE_Shr(WordBytes, words[wi + 1], sh), USIZE(Lit(\hFF))).low[2]

\* GetByte(byteIndex): the UINT8 result as a number
GetByte(WordBytes, words, byteIndex) ==
    LET wi == byteIndex \div WordBytes
        sh == (byteIndex % WordBytes) * 8
    IN  USIZE_And(USIZE_Shr(WordBytes, words[wi + 1], sh), USIZE(Lit(\hFF))).low[2]

\* (UINT8)((v >> (b * 8u)) & (U)0xFFu)
DataByte(elem, bb) == And32(Shr32(elem, bb * 8), Lit(\hFF))[2]

\* the constructor's two loops from byte k = i * sizeof(TChar) + b on
RECURSIVE PackFrom(_, _, _, _, _)
PackFrom(WordBytes, CharBytes, src, words, k) ==
    IF k >= Len(src) * CharBytes THEN words
    ELSE PackFrom(WordBytes, CharBytes, src,
                  SetByte(WordBytes, words, k,
                          DataByte(src[k \div CharBytes + 1], k % CharBytes)),
                  k + 1)

\* STACK_ARRAY_STORAGE(const TChar (&src)[N]) : words{}
STACK_ARRAY_STORAGE(WordBytes, CharBytes, src) ==
    PackFrom(WordBytes, CharBytes, src,
             ZeroWords(WordBytes, CharBytes, Len(src)), 0)

\* the conversion of an int or unsigned value to U on assignment
ToU(CharBytes, x) ==
    IF CharBytes = 1 THEN Word(0, x[2] % \h100)
    ELSE IF CharBytes = 2 THEN Word(0, x[2])
    ELSE x

\* the loop of operator[] from byte b on: v |= (U)GetByte(base + b) << (b * 8u)
RECURSIVE UnpackFrom(_, _, _, _, _, _)
UnpackFrom(WordBytes, CharBytes, words, base, bb, val) ==
    IF bb >= CharBytes THEN val
    ELSE UnpackFrom(WordBytes, CharBytes, words, base, bb + 1,
                    ToU(CharBytes,
                        Or32(val, Shl32(Lit(GetByte(WordBytes, words, base + bb)),
                                        bb * 8))))

\* TChar operator[](USIZE index) const
OpIndex(WordBytes, CharBytes, words, index) ==
    UnpackFrom(WordBytes, CharBytes, words, index * CharBytes, 0, W0)

(***************************************************************************)
(* ResolveExportAddressFromPebModule: declared in platform.h, its body is  *)
(* not part of the sources at hand.  It is modelled from its contract: the *)
(* loaded modules are a list of descriptors (name hash, base address,      *)
(* export name hashes and export RVAs in parallel), owned by the loader.   *)
(***************************************************************************)
\* the not-found result: a null PVOID
NotFound == W0

\* the index of the first export from j on whose name hash is
\* functionNameHash, 0 if there is none
RECURSIVE FindExport(_, _, _)
FindExport(names, functionNameHash, j) ==
    IF j > Len(names) THEN 0
    ELSE IF names[j] = functionNameHash THEN j
    ELSE FindExport(names, functionNameHash, j + 1)

\* a faulty address of an export: the RVA without the module base (C13 must
\* fail on it)
ExportAddress_RvaOnly(module, j) == module.rvas[j]

\* the absolute address of export j of a module: module base + export RVA
ExportAddress(module, j) == Add32(module.base, module.rvas[j])

\* the walk over the module list from module i on
RECURSIVE ResolveFrom(_, _, _, _)
ResolveFrom(modules, moduleNameHash, functionNameHash, i) ==
    IF i > Len(modules) THEN NotFound
    ELSE LET j == IF modules[i].nameHash = moduleNameHash
                  THEN FindExport(modules[i].names, functionNameHash, 1)
                  ELSE 0
         IN  IF j # 0 THEN ExportAddress(modules[i], j)
             ELSE ResolveFrom(modules, moduleNameHash, functionNameHash, i + 1)

\* PVOID ResolveExportAddressFromPebModule(moduleNameHash, functionNameHash)
ResolveExportAddressFromPebModule(modules, moduleNameHash, functionNameHash) ==
    ResolveFrom(modules, moduleNameHash, functionNameHash, 1)

\* a faulty walk that unlinks the module it matched from the list (C14 must
\* fail on it)
ModulesAfterResolve_Unlinks(modules, moduleNameHash, functionNameHash) ==
    SelectSeq(modules, LAMBDA m : m.nameHash # moduleNameHash)

\* the module list after a call: the resolver only reads it
ModulesAfterResolve(modules, moduleNameHash, functionNameHash) == modules

(***************************************************************************)
(* Relocation: platform.h.  On Windows i386 Initialize and                 *)
(* PerformRelocation are functions whose bodies are not part of the        *)
(* sources at hand; they are modelled from the declarations (the fields of *)
(* ENVIRONMENT_DATA, IMAGE_LINK_BASE) and from the Relocator's contract.   *)
(* On every other target both are the macros of platform.h.                *)
(***************************************************************************)
\* #define IMAGE_LINK_BASE ((USIZE)0x401000)
IMAGE_LINK_BASE == Word(\h0040, \h1000)

\* Windows i386, Initialize(envData) with the payload mapped at actual:
\* the relocation context is written into *envData
Initialize_I386(actual, envData) ==
    [BaseAddress |-> actual, ShouldRelocate |-> actual # IMAGE_LINK_BASE]

\* Windows i386, PerformRelocation(p): an address computed against the
\* link-time base is moved to the actual base
PerformRelocation_I386(envData, p) ==
    IF envData.ShouldRelocate
    THEN Add32(Sub32(p, IMAGE_LINK_BASE), envData.BaseAddress)
    ELSE p

\* Initialize(envData): the function on Windows i386, the macro
\* ((VOID)envData) elsewhere; the value of *envData after it
Initialize(target, actual, envData) ==
    IF target = "PLATFORM_WINDOWS_I386"
    THEN Initialize_I386(actual, envData)
    ELSE envData

\* a faulty PerformRelocation that moves the address on every target (C15
\* must fail on it)
PerformRelocation_EveryTarget(target, envData, p) ==
    PerformRelocation_I386(envData, p)

\* PerformRelocation(p): the function on Windows i386, the macro (p)
\* elsewhere
PerformRelocation(target, envData, p) ==
    IF target = "PLATFORM_WINDOWS_I386"
    THEN PerformRelocation_I386(envData, p)
    ELSE p

\* a faulty _start that logs its banner before it calls Initialize (C16 must
\* fail on it)
StartSteps_BannerFirst ==
    <<"Logger", "Initialize", "Logger", "Djb2Tests", "Logger", "MemoryTests",
      "Logger", "StringTests", "Logger", "Uint64Tests", "Logger",
      "Int64Tests", "Logger", "DoubleTests", "Logger",
      "StringFormatterTests", "Logger", "Logger", "Logger", "ExitProcess">>

\* the calls of _start in the order of start.cc: Initialize, the banner (two
\* lines), each suite's RunAll followed by a log line, the summary (two
\* lines) and ExitProcess
StartSteps ==
    <<"Initialize", "Logger", "Logger", "Djb2Tests", "Logger", "MemoryTests",
      "Logger", "StringTests", "Logger", "Uint64Tests", "Logger",
      "Int64Tests", "Logger", "DoubleTests", "Logger",
      "StringFormatterTests", "Logger", "Logger", "Logger", "ExitProcess">>

(***************************************************************************)
(* The state machine: an object a of one of the two classes is built from  *)
(* a bit pattern, and one operator is applied to it.  cls and op name the  *)
(* operator, b / v / s hold its 64-bit, 32-bit or shift-count argument,    *)
(* ret the value it returns and self the value of *this after the call.    *)
(***************************************************************************)
\* how many of the operand patterns below are used
NumOperands == 14

\* how far the shift counts reach: -1 .. MaxShift
MaxShift == 65

\* 64-bit operand patterns as <<bits 63..48, 47..32, 31..16, 15..0>>
OperandPatterns ==
    << <<0, 0, 0, 0>>,
       <<0, 0, 0, 1>>,
       <<0, 0, \hFFFF, \hFFFF>>,
       <<0, 1, 0, 0>>,
       <<\hFFFF, \hFFFF, \hFFFF, \hFFFF>>,
       <<\h8000, 0, 0, 0>>,
       <<\h7FFF, \hFFFF, \hFFFF, \hFFFF>>,
       <<\h1234, \h5678, \h9ABC, \hDEF0>>,
       <<0, 0, 0, 7>>,
       <<\h8000, 1, \h8000, 1>>,
       <<\hFFFF, \hFFFF, \hFFFF, \hFFF9>>,
       <<0, 0, 1, \hFFFF>>,
       <<\hFFFF, \hFFFF, 0, 0>>,
       <<0, 3, 0, 2>>,
       <<0, \hFFFF, \hFFFF, 0>>,
       <<\hDEAD, \hBEEF, \hCAFE, \hBABE>>,
       <<0, 0, \h8000, 0>>,
       <<\hFEDC, \hBA98, \h7654, \h3210>> >>

Pattern(q) == [high |-> Word(q[1], q[2]), low |-> Word(q[3], q[4])]

Operands ==
    {Pattern(OperandPatterns[n]) :
        n \in {m \in 1 .. Len(OperandPatterns) : m <= NumOperands}}

\* 32-bit arguments of the mixed-width overloads
Operands32 == {x.low : x \in Operands}

ShiftCounts == (-1) .. MaxShift

Zero64 == [high |-> W0, low |-> W0]

\* no literal in hand
LitIdle ==
    [pc |-> "none", WordBytes |-> 4, CharBytes |-> 1, src |-> <<>>,
     words |-> <<>>, index |-> 0, value |-> W0]

\* the mark of a pair of hashes that no call was made with (no address)
Unasked == <<>>

\* no module list in sight and nothing resolved
ResIdle ==
    [pc |-> "none", modules |-> <<>>, query |-> <<0, 0>>, result |-> W0,
     again |-> FALSE, first |-> <<>>]

\* no payload started
RelIdle ==
    [target |-> "none", actual |-> W0,
     envData |-> [BaseAddress |-> W0, ShouldRelocate |-> FALSE],
     inits |-> 0, pc |-> 0, allPassed |-> TRUE, trace |-> <<>>, p |-> W0,
     result |-> W0, first |-> <<>>, exit |-> 0]

\* no DOUBLE made
DblIdle ==
    [op |-> "none", bits |-> Zero64,
     native |-> [sign |-> 0, exponent |-> 0, mantissa |-> <<0, 0, 0, 0, 0, 0, 0>>],
     back |-> [sign |-> 0, exponent |-> 0, mantissa |-> <<0, 0, 0, 0, 0, 0, 0>>],
     n |-> W0, int |-> W0, this |-> [bits |-> Zero64],
     other |-> [bits |-> Zero64], result |-> [bits |-> Zero64]]

\* the other components at rest
OthersIdle == lit = LitIdle /\ res = ResIdle /\ rel = RelIdle /\ dbl = DblIdle

\* the answers of the six comparison operators, all FALSE while none was
\* called
NoCompare ==
    [eq |-> FALSE, ne |-> FALSE, lt |-> FALSE, le |-> FALSE, gt |-> FALSE,
     ge |-> FALSE]

Init ==
    /\ a \in Operands
    /\ self = a
    /\ cls = "none"
    /\ op = "none"
    /\ b = Zero64
    /\ v = W0
    /\ s = 0
    /\ ret = Zero64
    /\ cmp = NoCompare
    /\ OthersIdle

\* the effect of one call: the operator named (c, o) was applied to a with
\* the arguments y (64-bit), val (32-bit) or shift, returned result and left
\* *this with the value this
Call(c, o, y, val, shift, result, this) ==
    /\ cls' = c
    /\ op' = o
    /\ b' = y
    /\ v' = val
    /\ s' = shift
    /\ ret' = result
    /\ self' = this
    /\ UNCHANGED <<a, cmp>>
    /\ UNCHANGED others

\* UINT64: x + y, x - y, x * y, x / y, x % y
UAdd ==
    /\ op = "none"
    /\ \E y \in Operands : Call("UINT64", "+", y, v, s, UINT64_OpAdd(a, y), a)

USub ==
    /\ op = "none"
    /\ \E y \in Operands : Call("UINT64", "-", y, v, s, UINT64_OpSub(a, y), a)

UMul ==
    /\ op = "none"
    /\ \E y \in Operands : Call("UINT64", "*", y, v, s, UINT64_OpMul(a, y), a)

UDiv ==
    /\ op = "none"
    /\ \E y \in Operands : Call("UINT64", "/", y, v, s, UINT64_OpDiv(a, y), a)

UMod ==
    /\ op = "none"
    /\ \E y \in Operands : Call("UINT64", "%", y, v, s, UINT64_OpMod(a, y), a)

\* UINT64: x /= y, x %= y assign *this and return it
UDivAssign ==
    /\ op = "none"
    /\ \E y \in Operands : Call("UINT64", "/=", y, v, s, UINT64_OpDivAssign(a, y), UINT64_OpDivAssign(a, y))

UModAssign ==
    /\ op = "none"
    /\ \E y \in Operands : Call("UINT64", "%=", y, v, s, UINT64_OpModAssign(a, y), UINT64_OpModAssign(a, y))

\* UINT64: x / val, x % val for a UINT32 or an int val
UDivUINT32 ==
    /\ op = "none"
    /\ \E val \in Operands32 : Call("UINT64", "/UINT32", b, val, s, UINT64_OpDivUINT32(a, val), a)

UDivInt ==
    /\ op = "none"
    /\ \E val \in Operands32 : Call("UINT64", "/int", b, val, s, UINT64_OpDivInt(a, val), a)

UModUINT32 ==
    /\ op = "none"
    /\ \E val \in Operands32 : Call("UINT64", "%UINT32", b, val, s, UINT64_OpModUINT32(a, val), a)

UModInt ==
    /\ op = "none"
    /\ \E val \in Operands32 : Call("UINT64", "%int", b, val, s, UINT64_OpModInt(a, val), a)

\* UINT64: x << shift, x >> shift
UShl ==
    /\ op = "none"
    /\ \E shift \in ShiftCounts : Call("UINT64", "<<", b, v, shift, UINT64_OpShl(a, shift), a)

UShr ==
    /\ op = "none"
    /\ \E shift \in ShiftCounts : Call("UINT64", ">>", b, v, shift, UINT64_OpShr(a, shift), a)

\* INT64: x + y, x - y, x * y, x / y, x % y
IAdd ==
    /\ op = "none"
    /\ \E y \in Operands : Call("INT64", "+", y, v, s, INT64_OpAdd(a, y), a)

ISub ==
    /\ op = "none"
    /\ \E y \in Operands : Call("INT64", "-", y, v, s, INT64_OpSub(a, y), a)

IMul ==
    /\ op = "none"
    /\ \E y \in Operands : Call("INT64", "*", y, v, s, INT64_OpMul(a, y), a)

IDiv ==
    /\ op = "none"
    /\ \E y \in Operands : Call("INT64", "/", y, v, s, INT64_OpDiv(a, y), a)

IMod ==
    /\ op = "none"
    /\ \E y \in Operands : Call("INT64", "%", y, v, s, INT64_OpMod(a, y), a)

\* INT64: x /= y, x %= y assign *this and return it
IDivAssign ==
    /\ op = "none"
    /\ \E y \in Operands : Call("INT64", "/=", y, v, s, INT64_OpDivAssign(a, y), INT64_OpDivAssign(a, y))

IModAssign ==
    /\ op = "none"
    /\ \E y \in Operands : Call("INT64", "%=", y, v, s, INT64_OpModAssign(a, y), INT64_OpModAssign(a, y))

\* INT64: x / val, x % val for an INT32 val
IDivINT32 ==
    /\ op = "none"
    /\ \E val \in Operands32 : Call("INT64", "/INT32", b, val, s, INT64_OpDivINT32(a, val), a)

IModINT32 ==
    /\ op = "none"
    /\ \E val \in Operands32 : Call("INT64", "%INT32", b, val, s, INT64_OpModINT32(a, val), a)

\* INT64: x << shift, x >> shift
IShl ==
    /\ op = "none"
    /\ \E shift \in ShiftCounts : Call("INT64", "<<", b, v, shift, INT64_OpShl(a, shift), a)

IShr ==
    /\ op = "none"
    /\ \E shift \in ShiftCounts : Call("INT64", ">>", b, v, shift, INT64_OpShr(a, shift), a)

\* the six comparison operators of each class applied to the pair (a, y)
UCompare ==
    /\ op = "none"
    /\ \E y \in Operands :
        /\ cls' = "UINT64"
        /\ op' = "compare"
        /\ b' = y
        /\ cmp' = [eq |-> UINT64_OpEq(a, y), ne |-> UINT64_OpNe(a, y),
                   lt |-> UINT64_OpLt(a, y), le |-> UINT64_OpLe(a, y),
                   gt |-> UINT64_OpGt(a, y), ge |-> UINT64_OpGe(a, y)]
        /\ UNCHANGED <<a, v, s, ret, self>>
        /\ UNCHANGED others

ICompare ==
    /\ op = "none"
    /\ \E y \in Operands :
        /\ cls' = "INT64"
        /\ op' = "compare"
        /\ b' = y
        /\ cmp' = [eq |-> INT64_OpEq(a, y), ne |-> INT64_OpNe(a, y),
                   lt |-> INT64_OpLt(a, y), le |-> INT64_OpLe(a, y),
                   gt |-> INT64_OpGt(a, y), ge |-> INT64_OpGe(a, y)]
        /\ UNCHANGED <<a, v, s, ret, self>>
        /\ UNCHANGED others

Next ==
    \/ UAdd \/ USub \/ UMul \/ UDiv \/ UMod
    \/ UDivAssign \/ UModAssign
    \/ UDivUINT32 \/ UDivInt \/ UModUINT32 \/ UModInt
    \/ UShl \/ UShr
    \/ IAdd \/ ISub \/ IMul \/ IDiv \/ IMod
    \/ IDivAssign \/ IModAssign
    \/ IDivINT32 \/ IModINT32
    \/ IShl \/ IShr
    \/ UCompare \/ ICompare

Spec == Init /\ [][Next]_vars

----------------------------------------------------------------------------
\* The operator families of UINT64 and INT64, one call per behaviour

Classes == {"UINT64", "INT64"}

\* x o y, both operands of class c
Binary(c, o, this, other) ==
    IF c = "UINT64"
    THEN CASE o = "+" -> UINT64_OpAdd(this, other)
           [] o = "-" -> UINT64_OpSub(this, other)
           [] o = "*" -> UINT64_OpMul(this, other)
           [] o = "/" -> UINT64_OpDiv(this, other)
           [] o = "%" -> UINT64_OpMod(this, other)
           [] o = "&" -> UINT64_OpAnd(this, other)
           [] o = "|" -> UINT64_OpOr(this, other)
           [] o = "^" -> UINT64_OpXor(this, other)
    ELSE CASE o = "+" -> INT64_OpAdd(this, other)
           [] o = "-" -> INT64_OpSub(this, other)
           [] o = "*" -> INT64_OpMul(this, other)
           [] o = "/" -> INT64_OpDiv(this, other)
           [] o = "%" -> INT64_OpMod(this, other)
           [] o = "&" -> INT64_OpAnd(this, other)
           [] o = "|" -> INT64_OpOr(this, other)
           [] o = "^" -> INT64_OpXor(this, other)

BinaryOps == {"+", "-", "*", "/", "%", "&", "|", "^"}

\* the binary operators one macro or one pair of twin bodies gives both
\* classes; the calls of *, / and % are those of UMul .. IMod
TwinOps == {"+", "-", "&", "|", "^"}

\* the value x o= y leaves in x
Compound(c, o, this, other) ==
    IF c = "UINT64"
    THEN CASE o = "+" -> UINT64_OpAddAssign(this, other)
           [] o = "-" -> UINT64_OpSubAssign(this, other)
           [] o = "*" -> UINT64_OpMulAssign(this, other)
           [] o = "/" -> UINT64_OpDivAssign(this, other)
           [] o = "%" -> UINT64_OpModAssign(this, other)
           [] o = "&" -> UINT64_OpAndAssign(this, other)
           [] o = "|" -> UINT64_OpOrAssign(this, other)
           [] o = "^" -> UINT64_OpXorAssign(this, other)
    ELSE CASE o = "+" -> INT64_OpAddAssign(this, other)
           [] o = "-" -> INT64_OpSubAssign(this, other)
           [] o = "*" -> INT64_OpMulAssign(this, other)
           [] o = "/" -> INT64_OpDivAssign(this, other)
           [] o = "%" -> INT64_OpModAssign(this, other)
           [] o = "&" -> INT64_OpAndAssign(this, other)
           [] o = "|" -> INT64_OpOrAssign(this, other)
           [] o = "^" -> INT64_OpXorAssign(this, other)

\* x << shift, x >> shift
Shift(c, o, this, shift) ==
    IF c = "UINT64"
    THEN (IF o = "<<" THEN UINT64_OpShl(this, shift) ELSE UINT64_OpShr(this, shift))
    ELSE (IF o = "<<" THEN INT64_OpShl(this, shift) ELSE INT64_OpShr(this, shift))

\* the value x <<= shift, x >>= shift leaves in x
ShiftAssign(c, o, this, shift) ==
    IF c = "UINT64"
    THEN (IF o = "<<" THEN UINT64_OpShlAssign(this, shift)
          ELSE UINT64_OpShrAssign(this, shift))
    ELSE (IF o = "<<" THEN INT64_OpShlAssign(this, shift)
          ELSE INT64_OpShrAssign(this, shift))

ShiftOps == {"<<", ">>"}

\* ~x
Not64(c, this) == IF c = "UINT64" THEN UINT64_OpNot(this) ELSE INT64_OpNot(this)

\* the value ++x or x++ ("++"), --x or x-- ("--") leaves in x
Step(c, o, this) ==
    IF c = "UINT64"
    THEN (IF o = "++" THEN UINT64_OpPreInc(this) ELSE UINT64_OpPreDec(this))
    ELSE (IF o = "++" THEN INT64_OpPreInc(this) ELSE INT64_OpPreDec(this))

StepOps == {"++", "--"}

\* x o val for the 32-bit overloads: UINT32 val for UINT64, INT32 val for
\* INT64
Mixed(c, o, this, val) ==
    IF c = "UINT64"
    THEN CASE o = "+" -> UINT64_OpAddUINT32(this, val)
           [] o = "-" -> UINT64_OpSubUINT32(this, val)
           [] o = "*" -> UINT64_OpMulUINT32(this, val)
           [] o = "/" -> UINT64_OpDivUINT32(this, val)
           [] o = "%" -> UINT64_OpModUINT32(this, val)
           [] o = "&" -> UINT64_OpAndUINT32(this, val)
           [] o = "|" -> UINT64_OpOrUINT32(this, val)
           [] o = "^" -> UINT64_OpXorUINT32(this, val)
    ELSE CASE o = "+" -> INT64_OpAddINT32(this, val)
           [] o = "-" -> INT64_OpSubINT32(this, val)
           [] o = "*" -> INT64_OpMulINT32(this, val)
           [] o = "/" -> INT64_OpDivINT32(this, val)
           [] o = "%" -> INT64_OpModINT32(this, val)

MixedOps(c) == IF c = "UINT64" THEN BinaryOps ELSE {"+", "-", "*", "/", "%"}

\* the answers of the six comparisons of x with a 32-bit val
MixedCompare(c, this, val) ==
    IF c = "UINT64"
    THEN [eq |-> UINT64_OpEqUINT32(this, val), ne |-> UINT64_OpNeUINT32(this, val),
          lt |-> UINT64_OpLtUINT32(this, val), le |-> UINT64_OpLeUINT32(this, val),
          gt |-> UINT64_OpGtUINT32(this, val), ge |-> UINT64_OpGeUINT32(this, val)]
    ELSE [eq |-> INT64_OpEqINT32(this, val), ne |-> INT64_OpNeINT32(this, val),
          lt |-> INT64_OpLtINT32(this, val), le |-> INT64_OpLeINT32(this, val),
          gt |-> INT64_OpGtINT32(this, val), ge |-> INT64_OpGeINT32(this, val)]

\* x o val for the int overloads of UINT64
WithInt(o, this, val) ==
    CASE o = "/" -> UINT64_OpDivInt(this, val)
      [] o = "%" -> UINT64_OpModInt(this, val)
      [] o = "&" -> UINT64_OpAndInt(this, val)

IntOps == {"/", "%", "&"}

InitOperators == Init

\* x o y for the operators of TwinOps
Twin(c, o, this, other) ==
    IF c = "UINT64"
    THEN CASE o = "+" -> UINT64_OpAdd(this, other)
           [] o = "-" -> UINT64_OpSub(this, other)
           [] o = "&" -> UINT64_OpAnd(this, other)
           [] o = "|" -> UINT64_OpOr(this, other)
           [] o = "^" -> UINT64_OpXor(this, other)
    ELSE CASE o = "+" -> INT64_OpAdd(this, other)
           [] o = "-" -> INT64_OpSub(this, other)
           [] o = "&" -> INT64_OpAnd(this, other)
           [] o = "|" -> INT64_OpOr(this, other)
           [] o = "^" -> INT64_OpXor(this, other)

CallBinary ==
    /\ op = "none"
    /\ \E c \in Classes, o \in TwinOps, y \in Operands :
        Call(c, o, y, v, s, Twin(c, o, a, y), a)

\* x o= y assigns *this and returns it
CallCompound ==
    /\ op = "none"
    /\ \E c \in Classes, o \in BinaryOps, y \in Operands :
        /\ cls' = c
        /\ op' = o \o "="
        /\ b' = y
        /\ self' = Compound(c, o, a, y)
        /\ ret' = self'
        /\ UNCHANGED <<a, v, s, cmp>>
        /\ UNCHANGED others

\* ~x
CallNot ==
    /\ op = "none"
    /\ \E c \in Classes : Call(c, "~", b, v, s, Not64(c, a), a)

\* x << shift, x >> shift
CallShift ==
    /\ op = "none"
    /\ \E c \in Classes, o \in ShiftOps, shift \in ShiftCounts :
        Call(c, o, b, v, shift, Shift(c, o, a, shift), a)

\* x <<= shift, x >>= shift assign *this and return it
CallShiftAssign ==
    /\ op = "none"
    /\ \E c \in Classes, o \in ShiftOps, shift \in ShiftCounts :
        /\ cls' = c
        /\ op' = o \o "="
        /\ s' = shift
        /\ self' = ShiftAssign(c, o, a, shift)
        /\ ret' = self'
        /\ UNCHANGED <<a, b, v, cmp>>
        /\ UNCHANGED others

\* ++x, --x step *this and return it; x++, x-- return the copy temp made
\* before the step
CallPrefix ==
    /\ op = "none"
    /\ \E c \in Classes, o \in StepOps :
        /\ cls' = c
        /\ op' = o \o "x"
        /\ self' = Step(c, o, a)
        /\ ret' = self'
        /\ UNCHANGED <<a, b, v, s, cmp>>
        /\ UNCHANGED others

CallPostfix ==
    /\ op = "none"
    /\ \E c \in Classes, o \in StepOps :
        Call(c, "x" \o o, b, v, s, a, Step(c, o, a))

\* x o val for a UINT32 val (UINT64) or an INT32 val (INT64)
CallMixed ==
    /\ op = "none"
    /\ \E c \in Classes, val \in Operands32 : \E o \in MixedOps(c) :
        Call(c, o \o "32", b, val, s, Mixed(c, o, a, val), a)

\* the six comparisons of x with a 32-bit val
CallMixedCompare ==
    /\ op = "none"
    /\ \E c \in Classes, val \in Operands32 :
        /\ cls' = c
        /\ op' = "compare32"
        /\ v' = val
        /\ cmp' = MixedCompare(c, a, val)
        /\ UNCHANGED <<a, b, s, ret, self>>
        /\ UNCHANGED others

\* UINT64: x / val, x % val, x & val for an int val
CallWithInt ==
    /\ op = "none"
    /\ \E o \in IntOps, val \in Operands32 :
        Call("UINT64", o \o "int", b, val, s, WithInt(o, a, val), a)

\* UINT64: x == val, x != val for an int val
CallCompareInt ==
    /\ op = "none"
    /\ \E val \in Operands32 :
        /\ cls' = "UINT64"
        /\ op' = "compareInt"
        /\ v' = val
        /\ cmp' = [NoCompare EXCEPT !.eq = UINT64_OpEqInt(a, val),
                                    !.ne = UINT64_OpNeInt(a, val)]
        /\ UNCHANGED <<a, b, s, ret, self>>
        /\ UNCHANGED others

NextOperators ==
    \/ CallBinary \/ CallCompound \/ CallNot
    \/ UCompare \/ ICompare
    \/ CallShift \/ CallShiftAssign
    \/ CallPrefix \/ CallPostfix

SpecOperators == InitOperators /\ [][NextOperators]_vars

\* the overloads that take a 32-bit or an int operand
InitMixed == Init

NextMixed ==
    \/ CallMixed \/ CallMixedCompare
    \/ CallWithInt \/ CallCompareInt

SpecMixed == InitMixed /\ [][NextMixed]_vars

----------------------------------------------------------------------------
\* Runs of increments followed by as many decrements on one object

\* the longest run of increments
MaxSteps == 3

\* an object of either class with the value a; s counts the increments not
\* yet undone, b holds the value before the last step
InitCount ==
    /\ a \in Operands
    /\ self = a
    /\ cls \in Classes
    /\ op = "none"
    /\ b = a
    /\ v = W0
    /\ s = 0
    /\ ret = Zero64
    /\ cmp = NoCompare
    /\ OthersIdle

\* ++x or x++ while no decrement was made
Increment ==
    /\ op \in {"none", "++x", "x++"}
    /\ s < MaxSteps
    /\ \E form \in {"++x", "x++"} :
        /\ op' = form
        /\ b' = self
        /\ self' = Step(cls, "++", self)
        /\ ret' = IF form = "++x" THEN self' ELSE self
        /\ s' = s + 1
        /\ UNCHANGED <<cls, a, v, cmp>>
        /\ UNCHANGED others

\* --x or x-- while increments are left to undo
Decrement ==
    /\ s > 0
    /\ \E form \in {"--x", "x--"} :
        /\ op' = form
        /\ b' = self
        /\ self' = Step(cls, "--", self)
        /\ ret' = IF form = "--x" THEN self' ELSE self
        /\ s' = s - 1
        /\ UNCHANGED <<cls, a, v, cmp>>
        /\ UNCHANGED others

NextCount == Increment \/ Decrement

SpecCount == InitCount /\ [][NextCount]_vars

----------------------------------------------------------------------------
\* The loops of UINT64::operator/ and operator%, one iteration at a time

\* the loop variables on entry, after the test for a zero divisor: a is the
\* dividend (*this), b the divisor (other), op the operator whose loop
\* runs, s the loop variable i, ret the quotient, self the remainder;
\* v counts the iterations made
InitDivide ==
    /\ a \in Operands
    /\ b \in Operands \ {Zero64}
    /\ cls = "UINT64"
    /\ op \in {"/", "%"}
    /\ s = 63
    /\ ret = Zero64
    /\ self = Zero64
    /\ v = W0
    /\ cmp = NoCompare
    /\ OthersIdle

\* one iteration of for (int i = 63; i >= 0; i--) in operator/
DivIterate ==
    /\ op = "/"
    /\ s >= 0
    /\ LET st == DivStep(a, b, [i |-> s, quotient |-> ret, remainder |-> self])
       IN  /\ s' = st.i
           /\ ret' = st.quotient
           /\ self' = st.remainder
    /\ v' = Add32(v, W1)
    /\ UNCHANGED <<cls, op, a, b, cmp>>
    /\ UNCHANGED others

\* one iteration of for (int i = 63; i >= 0; i--) in operator%
ModIterate ==
    /\ op = "%"
    /\ s >= 0
    /\ LET st == ModStep(a, b, [i |-> s, remainder |-> self])
       IN  /\ s' = st.i
           /\ self' = st.remainder
    /\ v' = Add32(v, W1)
    /\ UNCHANGED <<cls, op, a, b, ret, cmp>>
    /\ UNCHANGED others

NextDivide == DivIterate \/ ModIterate

SpecDivide == InitDivide /\ [][NextDivide]_vars

(***************************************************************************)
(* The packed literal: a literal array src of elements of CharBytes bytes  *)
(* is packed by the constructor on a target with WordBytes-byte words, and *)
(* then read back one index at a time.                                     *)
(***************************************************************************)
\* the longest literal array
MaxCount == 3

\* the integer operators at rest
IntIdle ==
    /\ cls = "none"
    /\ op = "none"
    /\ a = Zero64
    /\ b = Zero64
    /\ v = W0
    /\ s = 0
    /\ ret = Zero64
    /\ self = Zero64
    /\ cmp = NoCompare

\* bit patterns of elements of 1, 2 and 4 bytes, with and without the top
\* bit set
ElementPatterns(CharBytes) ==
    IF CharBytes = 1
    THEN {Word(0, 0), Word(0, \h41), Word(0, \h80), Word(0, \hFF)}
    ELSE IF CharBytes = 2
    THEN {Word(0, 0), Word(0, \h41), Word(0, \h8001), Word(0, \hFF7F)}
    ELSE {Word(0, 0), Word(0, \h41), Word(\h8000, \h0102), Word(\hFFEE, \h7F80)}

Literals(CharBytes) ==
    UNION {[1 .. n -> ElementPatterns(CharBytes)] : n \in 1 .. MaxCount}

InitLiteral ==
    /\ IntIdle
    /\ dbl = DblIdle
    /\ res = ResIdle
    /\ rel = RelIdle
    /\ \E wb \in WordBytesOf, cb \in CharBytesOf :
         \E src \in Literals(cb) :
            lit = [pc |-> "source", WordBytes |-> wb, CharBytes |-> cb,
                   src |-> src, words |-> <<>>, index |-> 0, value |-> W0]

\* MakeArrayStorage(arr): the storage is built from the literal
MakeArrayStorage ==
    /\ lit.pc = "source"
    /\ lit' = [lit EXCEPT !.pc = "built",
                          !.words = STACK_ARRAY_STORAGE(lit.WordBytes,
                                                        lit.CharBytes, lit.src)]
    /\ UNCHANGED <<intVars, res, rel, dbl>>

\* storage[index] for an index below N
Index ==
    /\ lit.pc \in {"built", "indexed"}
    /\ \E index \in 0 .. Len(lit.src) - 1 :
         lit' = [lit EXCEPT !.pc = "indexed",
                            !.index = index,
                            !.value = OpIndex(lit.WordBytes, lit.CharBytes,
                                              lit.words, index)]
    /\ UNCHANGED <<intVars, res, rel, dbl>>

SpecLiteral == InitLiteral /\ [][MakeArrayStorage \/ Index]_vars

(***************************************************************************)
(* Symbol resolution: the loader has some modules loaded, and the payload  *)
(* resolves pairs of hashes, any number of times and in any order.         *)
(***************************************************************************)
\* how many modules the list holds at most
MaxModules == 2

\* name hashes: 11 and 22 name modules and exports that exist, 33 names
\* nothing
Hashes == {11, 22, 33}

\* module descriptors a loader may hold
ModuleDescriptors ==
    {[nameHash |-> 11, base |-> Word(\h7FF8, 0),
      names |-> <<11, 22>>,
      rvas |-> <<Word(0, \h1000), Word(1, \h2340)>>],
     [nameHash |-> 22, base |-> Word(\h0040, 0),
      names |-> <<22>>, rvas |-> <<Word(0, \h1010)>>],
     [nameHash |-> 22, base |-> Word(\h1000, 0),
      names |-> <<11>>, rvas |-> <<Word(0, \h0FF0)>>],
     [nameHash |-> 11, base |-> Word(\h6000, 0),
      names |-> <<>>, rvas |-> <<>>]}

ModuleLists ==
    UNION {[1 .. n -> ModuleDescriptors] : n \in 0 .. MaxModules}

Queries == Hashes \X Hashes

InitResolve ==
    /\ IntIdle
    /\ dbl = DblIdle
    /\ lit = LitIdle
    /\ rel = RelIdle
    /\ \E modules \in ModuleLists :
         res = [pc |-> "loaded", modules |-> modules, query |-> <<0, 0>>,
                result |-> W0, again |-> FALSE, first |-> [q \in Queries |-> Unasked]]

\* one call of the resolver; first keeps what the first call with each pair
\* of hashes returned, again tells whether this pair was asked before
Resolve ==
    /\ res.pc \in {"loaded", "resolved"}
    /\ \E q \in Queries :
         LET result == ResolveExportAddressFromPebModule(res.modules, q[1], q[2])
         IN  res' = [pc |-> "resolved",
                     modules |-> ModulesAfterResolve(res.modules, q[1], q[2]),
                     query |-> q,
                     result |-> result,
                     again |-> res.first[q] # Unasked,
                     first |-> IF res.first[q] = Unasked
                               THEN [res.first EXCEPT ![q] = result]
                               ELSE res.first]
    /\ UNCHANGED <<intVars, lit, rel, dbl>>

SpecResolve == InitResolve /\ [][Resolve]_vars

(***************************************************************************)
(* Relocation: a payload built for some target is mapped at some base;     *)
(* Initialize and, after it, PerformRelocation are called any number of    *)
(* times.  envData starts with whatever the stack held.                    *)
(***************************************************************************)
\* how many times Initialize is called at most
MaxInits == 3

\* the payload before its first instruction: the target it was built for,
\* the base it is mapped at, the uninitialized ENVIRONMENT_DATA of _start
Payloads ==
    {[RelIdle EXCEPT !.target = tg, !.actual = base, !.envData = env,
                     !.first = [p \in {Word(\h0040, \h1000), Word(\h0040, \h2ABC),
                                       Word(\h0041, \hFFF0)} |-> Unasked]] :
        tg \in {"PLATFORM_WINDOWS_I386", "PLATFORM_WINDOWS_X86_64"},
        base \in {Word(\h0040, \h1000), Word(\h0001, 0), Word(\h7FF0, \h3000)},
        env \in {[BaseAddress |-> W0, ShouldRelocate |-> FALSE],
                 [BaseAddress |-> Word(\hCCCC, \hCCCC), ShouldRelocate |-> TRUE]}}

InitRelocate ==
    /\ IntIdle
    /\ dbl = DblIdle
    /\ lit = LitIdle
    /\ res = ResIdle
    /\ rel \in Payloads

\* Initialize(&envData), for the first time or again
RelInitialize ==
    /\ rel.inits < MaxInits
    /\ rel' = [rel EXCEPT !.envData = Initialize(rel.target, rel.actual, @),
                          !.inits = @ + 1,
                          !.trace = <<"Initialize">>]
    /\ UNCHANGED <<intVars, lit, res, dbl>>

\* PerformRelocation(p) for a link-time address p, once Initialize has run;
\* first keeps what the first call with each p returned
RelPerform ==
    /\ rel.inits >= 1
    /\ \E p \in DOMAIN rel.first :
         LET result == PerformRelocation(rel.target, rel.envData, p)
         IN  rel' = [rel EXCEPT !.p = p,
                                !.result = result,
                                !.trace = <<"PerformRelocation">>,
                                !.first = IF @[p] = Unasked
                                          THEN [@ EXCEPT ![p] = result]
                                          ELSE @]
    /\ UNCHANGED <<intVars, lit, res, dbl>>

SpecRelocate == InitRelocate /\ [][RelInitialize \/ RelPerform]_vars

(***************************************************************************)
(* Start-up: _start of start.cc, one call at a time.  trace lists the      *)
(* calls made so far.                                                      *)
(***************************************************************************)
InitStart ==
    /\ IntIdle
    /\ dbl = DblIdle
    /\ lit = LitIdle
    /\ res = ResIdle
    /\ \E payload \in Payloads : rel = [payload EXCEPT !.pc = 1]

\* the call at rel.pc is made and _start moves on
StartCall(name, payload) ==
    /\ rel.pc <= Len(StartSteps)
    /\ rel' = [payload EXCEPT !.pc = @ + 1, !.trace = Append(@, name)]
    /\ UNCHANGED <<intVars, lit, res, dbl>>

\* ENVIRONMENT_DATA envData; Initialize(&envData);
StartInitialize ==
    /\ rel.pc <= Len(StartSteps)
    /\ StartSteps[rel.pc] = "Initialize"
    /\ StartCall("Initialize",
                 [rel EXCEPT !.envData = Initialize(rel.target, rel.actual, @),
                             !.inits = @ + 1])

\* Logger::Info or Logger::Error with an embedded string
StartLogger ==
    /\ rel.pc <= Len(StartSteps)
    /\ StartSteps[rel.pc] = "Logger"
    /\ StartCall("Logger", rel)

\* if (!Suite::RunAll()) allPassed = FALSE;
StartRunAll ==
    /\ rel.pc <= Len(StartSteps)
    /\ StartSteps[rel.pc] \notin {"Initialize", "Logger", "ExitProcess"}
    /\ \E passed \in BOOLEAN :
         StartCall(StartSteps[rel.pc],
                   [rel EXCEPT !.allPassed = IF passed THEN @ ELSE FALSE])

\* ExitProcess(allPassed ? 0 : 1): the process is gone, exit keeps the code
StartExit ==
    /\ rel.pc <= Len(StartSteps)
    /\ StartSteps[rel.pc] = "ExitProcess"
    /\ StartCall("ExitProcess",
                 [rel EXCEPT !.exit = IF rel.allPassed THEN 0 ELSE 1])

SpecStart ==
    InitStart /\ [][StartInitialize \/ StartLogger \/ StartRunAll \/ StartExit]_vars

(***************************************************************************)
(* The arithmetic the claims are stated in: natural numbers of any size,   *)
(* written as sequences of base-256 digits, least significant first (so    *)
(* that no intermediate value exceeds TLC's integers).  These definitions  *)
(* do not model the code; they say what 64-bit arithmetic must produce.    *)
(***************************************************************************)
\* the value of a 32-bit word as four digits
Digits32(w) == <<w[2] % 256, w[2] \div 256, w[1] % 256, w[1] \div 256>>

\* the unsigned value of the pair (high, low): low + 2^32 * high
Value(x) == Digits32(x.low) \o Digits32(x.high)

\* the digit at position n (positions from 1), zero beyond the end
Digit(x, n) == IF n <= Len(x) THEN x[n] ELSE 0

MaxOf(m, n) == IF m >= n THEN m ELSE n

\* x + y + c from position n on, c the carry into position n
RECURSIVE NatAddFrom(_, _, _, _)
NatAddFrom(x, y, n, c) ==
    IF n > Len(x) /\ n > Len(y)
    THEN IF c = 0 THEN <<>> ELSE <<c>>
    ELSE LET t == Digit(x, n) + Digit(y, n) + c
         IN  <<t % 256>> \o NatAddFrom(x, y, n + 1, t \div 256)

NatAdd(x, y) == NatAddFrom(x, y, 1, 0)

\* x * d + c from position n on, d one digit
RECURSIVE NatScaleFrom(_, _, _, _)
NatScaleFrom(x, d, n, c) ==
    IF n > Len(x)
    THEN IF c = 0 THEN <<>> ELSE <<c>>
    ELSE LET t == x[n] * d + c
         IN  <<t % 256>> \o NatScaleFrom(x, d, n + 1, t \div 256)

\* x * y: the multiples of x by the digits of y, from position n of y on
RECURSIVE NatMulFrom(_, _, _)
NatMulFrom(x, y, n) ==
    IF n > Len(y) THEN <<>>
    ELSE NatAdd(NatScaleFrom(x, y[n], 1, 0), <<0>> \o NatMulFrom(x, y, n + 1))

NatMul(x, y) == NatMulFrom(x, y, 1)

\* x = y and x < y as numbers (leading zero digits do not count)
NatEq(x, y) == \A n \in 1 .. MaxOf(Len(x), Len(y)) : Digit(x, n) = Digit(y, n)

NatLt(x, y) ==
    \E n \in 1 .. MaxOf(Len(x), Len(y)) :
        /\ Digit(x, n) < Digit(y, n)
        /\ \A m \in n + 1 .. MaxOf(Len(x), Len(y)) : Digit(x, m) = Digit(y, m)

NatLe(x, y) == ~NatLt(y, x)

\* x mod 2^k
NatModPow2(x, k) ==
    [n \in 1 .. (k + 7) \div 8 |->
        IF n <= k \div 8 THEN Digit(x, n) ELSE Digit(x, n) % 2^(k % 8)]

\* x mod 2^64
Mod64(x) == NatModPow2(x, 64)

\* 2^k
NatPow2(k) == [n \in 1 .. k \div 8 + 1 |-> IF n = k \div 8 + 1 THEN 2^(k % 8) ELSE 0]

\* bit n (from 0) of x
NatBit(x, n) == (Digit(x, n \div 8 + 1) \div 2^(n % 8)) % 2

(***************************************************************************)
(* DOUBLE: double.h is not part of the sources at hand, only its tests     *)
(* are.  It is modelled from its contract: a DOUBLE holds the 64 bits of   *)
(* an IEEE-754 binary64 value in a UINT64, and its operators give the      *)
(* correctly rounded (to nearest, ties to even) binary64 result.  A native *)
(* double is kept as its three fields: sign, exponent (11 bits, biased)    *)
(* and mantissa (52 bits, as seven digits).  Operands and results are zero *)
(* or normal numbers; infinities, NaNs and subnormals are not modelled.    *)
(***************************************************************************)
\* x - y for x >= y, from position n on, c the borrow into position n
RECURSIVE NatSubFrom(_, _, _, _)
NatSubFrom(x, y, n, c) ==
    IF n > Len(x) THEN <<>>
    ELSE LET d == x[n] - Digit(y, n) - c
         IN  <<IF d < 0 THEN d + 256 ELSE d>>
                 \o NatSubFrom(x, y, n + 1, IF d < 0 THEN 1 ELSE 0)

\* floor(x / 2^k)
NatShr(x, k) ==
    [n \in 1 .. MaxOf(Len(x) - (k \div 8), 0) |->
        Digit(x, n + (k \div 8)) \div 2^(k % 8)
            + (Digit(x, n + (k \div 8) + 1) % 2^(k % 8)) * 2^(8 - (k % 8))]

\* the number of bits of x: 0 for zero, else 1 + the index of the highest
\* set bit
NatBitLength(x) ==
    LET nz == {n \in 1 .. Len(x) : x[n] # 0}
    IN  IF nz = {} THEN 0
        ELSE LET top == CHOOSE n \in nz : \A m \in nz : m <= n
             IN  8 * (top - 1)
                   + (CHOOSE k \in 1 .. 8 : 2^(k - 1) <= x[top] /\ x[top] < 2^k)

\* one step of the long division of dividend by divisor, bit st.i of the
\* dividend coming in: st = [i, q, r]
NatDivStep(dividend, divisor, st) ==
    LET r2 == NatAdd(NatAdd(st.r, st.r), <<NatBit(dividend, st.i)>>)
    IN  IF NatLe(divisor, r2)
        THEN [i |-> st.i - 1, q |-> NatAdd(NatAdd(st.q, st.q), <<1>>),
              r |-> NatSubFrom(r2, divisor, 1, 0)]
        ELSE [i |-> st.i - 1, q |-> NatAdd(st.q, st.q), r |-> r2]

\* the steps down to bit stop
RECURSIVE NatDivLoop(_, _, _, _)
NatDivLoop(dividend, divisor, st, stop) ==
    IF st.i >= stop
    THEN NatDivLoop(dividend, divisor, NatDivStep(dividend, divisor, st), stop)
    ELSE st

\* quotient q and remainder r of dividend by divisor, for a dividend of at
\* most 128 bits
NatDivMod(dividend, divisor) ==
    NatDivLoop(dividend, divisor,
      NatDivLoop(dividend, divisor,
        NatDivLoop(dividend, divisor,
          NatDivLoop(dividend, divisor,
            NatDivLoop(dividend, divisor,
              NatDivLoop(dividend, divisor,
                NatDivLoop(dividend, divisor,
                  NatDivLoop(dividend, divisor,
                             [i |-> 127, q |-> <<0>>, r |-> <<0>>], 112),
                  96), 80), 64), 48), 32), 16), 0)

\* DOUBLE(UINT32 high, UINT32 low), and DOUBLE(UINT64 bits) with the two
\* words of bits
DOUBLE(h, l) == [bits |-> UINT64(h, l)]

\* Bits()
DOUBLE_Bits(d) == d.bits

\* DOUBLE(double): the fields of the native value, packed into the 64 bits
DOUBLE_FromNative(x) ==
    DOUBLE(Word(x.sign * \h8000 + x.exponent * 16 + x.mantissa[7],
                x.mantissa[6] * 256 + x.mantissa[5]),
           Word(x.mantissa[4] * 256 + x.mantissa[3],
                x.mantissa[2] * 256 + x.mantissa[1]))

\* a faulty conversion to double that takes the exponent for 12 bits wide,
\* sign bit included (C17 must fail on it)
DOUBLE_ToNative_WideExponent(d) ==
    [sign |-> d.bits.high[1] \div \h8000,
     exponent |-> d.bits.high[1] \div 16,
     mantissa |-> Digits32(d.bits.low)
                    \o <<d.bits.high[2] % 256, d.bits.high[2] \div 256,
                         d.bits.high[1] % 16>>]

\* operator double(): the 64 bits, taken apart into the fields
DOUBLE_ToNative(d) ==
    [sign |-> d.bits.high[1] \div \h8000,
     exponent |-> (d.bits.high[1] \div 16) % 2048,
     mantissa |-> Digits32(d.bits.low)
                    \o <<d.bits.high[2] % 256, d.bits.high[2] \div 256,
                         d.bits.high[1] % 16>>]

\* the value of a zero or normal x is (-1)^sign * Significand(x) * 2^Exp2(x)
Significand(x) ==
    IF x.exponent = 0 THEN x.mantissa ELSE [x.mantissa EXCEPT ![7] = @ + 16]

Exp2(x) == (IF x.exponent = 0 THEN 1 ELSE x.exponent) - 1075

\* the binary64 value nearest to (-1)^sign * n * 2^e, ties to even
RoundPack(sign, n, e) ==
    IF NatBitLength(n) = 0
    THEN [sign |-> sign, exponent |-> 0, mantissa |-> <<0, 0, 0, 0, 0, 0, 0>>]
    ELSE LET wide == NatMul(n, NatPow2(64))
             shift == NatBitLength(wide) - 53
             q == NatShr(wide, shift)
             up == /\ NatBit(wide, shift - 1) = 1
                   /\ \/ NatBitLength(NatModPow2(wide, shift - 1)) # 0
                      \/ NatBit(q, 0) = 1
             r == IF up THEN NatAdd(q, <<1>>) ELSE q
             carry == NatBitLength(r) = 54
             sig == IF carry THEN NatShr(r, 1) ELSE r
         IN  [sign |-> sign,
              exponent |-> e - 64 + shift + (IF carry THEN 1 ELSE 0) + 1075,
              mantissa |-> [k \in 1 .. 7 |-> IF k = 7 THEN sig[k] - 16 ELSE sig[k]]]

\* a faulty DOUBLE(INT32 val) that takes the bit pattern of val for its
\* magnitude (C18 must fail on it)
DOUBLE_FromINT32_Unsigned(val) ==
    IF val = W0 THEN DOUBLE(W0, W0)
    ELSE LET magnitude == Digits32(val)
             msb == NatBitLength(magnitude) - 1
             aligned == NatMul(magnitude, NatPow2(52 - msb))
         IN  DOUBLE_FromNative(
               [sign |-> IF Neg32(val) THEN 1 ELSE 0,
                exponent |-> 1023 + msb,
                mantissa |-> [k \in 1 .. 7 |->
                                IF k = 7 THEN aligned[k] - 16 ELSE aligned[k]]])

\* DOUBLE(INT32 val): sign, exponent and mantissa from the magnitude
DOUBLE_FromINT32(val) ==
    IF val = W0 THEN DOUBLE(W0, W0)
    ELSE LET magnitude == Digits32(IF Neg32(val) THEN Sub32(W0, val) ELSE val)
             msb == NatBitLength(magnitude) - 1
             aligned == NatMul(magnitude, NatPow2(52 - msb))
         IN  DOUBLE_FromNative(
               [sign |-> IF Neg32(val) THEN 1 ELSE 0,
                exponent |-> 1023 + msb,
                mantissa |-> [k \in 1 .. 7 |->
                                IF k = 7 THEN aligned[k] - 16 ELSE aligned[k]]])

\* a faulty conversion to INT32 that rounds to the nearest integer (C19 must
\* fail on it)
DOUBLE_ToINT32_Nearest(d) ==
    LET x == DOUBLE_ToNative(d)
        twice == IF x.exponent < 1022 THEN <<0>>
                 ELSE NatShr(Significand(x), 1074 - x.exponent)
        m == NatShr(NatAdd(twice, <<1>>), 1)
        magnitude == Word(Digit(m, 4) * 256 + Digit(m, 3),
                          Digit(m, 2) * 256 + Digit(m, 1))
    IN  IF x.sign = 1 THEN Sub32(W0, magnitude) ELSE magnitude

\* operator INT32(), for a value of magnitude below 2^31: the integer part
\* of the magnitude, with the sign
DOUBLE_ToINT32(d) ==
    LET x == DOUBLE_ToNative(d)
        m == IF x.exponent < 1023 THEN <<0>>
             ELSE NatShr(Significand(x), 1075 - x.exponent)
        magnitude == Word(Digit(m, 4) * 256 + Digit(m, 3),
                          Digit(m, 2) * 256 + Digit(m, 1))
    IN  IF x.sign = 1 THEN Sub32(W0, magnitude) ELSE magnitude

\* operator-(): the sign bit flipped
DOUBLE_OpNeg(d) ==
    DOUBLE(Word((d.bits.high[1] + \h8000) % \h10000, d.bits.high[2]), d.bits.low)

\* a faulty operator+ that truncates the exact sum where it must round
\* (C20 must fail on it)
DOUBLE_OpAdd_Truncating(this, other) ==
    LET x == DOUBLE_ToNative(this)
        y == DOUBLE_ToNative(other)
        ex == IF x.exponent = 0 THEN Exp2(y) ELSE Exp2(x)
        ey == IF y.exponent = 0 THEN Exp2(x) ELSE Exp2(y)
        e == IF ex <= ey THEN ex ELSE ey
        nx == NatMul(Significand(x), NatPow2(ex - e))
        ny == NatMul(Significand(y), NatPow2(ey - e))
        sum == IF x.sign = y.sign THEN NatAdd(nx, ny)
               ELSE IF NatLt(nx, ny) THEN NatSubFrom(ny, nx, 1, 0)
               ELSE NatSubFrom(nx, ny, 1, 0)
        drop == MaxOf(NatBitLength(sum) - 53, 0)
    IN  DOUBLE_FromNative(
          RoundPack(IF x.sign = y.sign \/ NatLt(ny, nx) THEN x.sign
                    ELSE IF NatLt(nx, ny) THEN y.sign ELSE 0,
                    NatShr(sum, drop), e + drop))

\* operator+: the exact sum of the two values, rounded; both are written as
\* multiples of 2^e, a zero with the exponent of the other operand
DOUBLE_OpAdd(this, other) ==
    LET x == DOUBLE_ToNative(this)
        y == DOUBLE_ToNative(other)
        ex == IF x.exponent = 0 THEN Exp2(y) ELSE Exp2(x)
        ey == IF y.exponent = 0 THEN Exp2(x) ELSE Exp2(y)
        e == IF ex <= ey THEN ex ELSE ey
        nx == NatMul(Significand(x), NatPow2(ex - e))
        ny == NatMul(Significand(y), NatPow2(ey - e))
    IN  DOUBLE_FromNative(
          IF x.sign = y.sign THEN RoundPack(x.sign, NatAdd(nx, ny), e)
          ELSE IF NatLt(nx, ny) THEN RoundPack(y.sign, NatSubFrom(ny, nx, 1, 0), e)
          ELSE IF NatLt(ny, nx) THEN RoundPack(x.sign, NatSubFrom(nx, ny, 1, 0), e)
          ELSE RoundPack(0, <<0>>, e))

\* operator-
DOUBLE_OpSub(this, other) == DOUBLE_OpAdd(this, DOUBLE_OpNeg(other))

\* operator*: the exact product, rounded
DOUBLE_OpMul(this, other) ==
    LET x == DOUBLE_ToNative(this)
        y == DOUBLE_ToNative(other)
    IN  DOUBLE_FromNative(
          RoundPack((x.sign + y.sign) % 2,
                    NatMul(Significand(x), Significand(y)), Exp2(x) + Exp2(y)))

\* operator/ for a divisor that is not zero: the quotient to 57 bits at
\* least, one more bit telling whether a remainder was left, rounded
DOUBLE_OpDiv(this, other) ==
    LET x == DOUBLE_ToNative(this)
        y == DOUBLE_ToNative(other)
        d == NatDivMod(NatMul(Significand(x), NatPow2(58)), Significand(y))
        sticky == IF NatBitLength(d.r) = 0 THEN 0 ELSE 1
    IN  DOUBLE_FromNative(
          RoundPack((x.sign + y.sign) % 2,
                    NatAdd(NatAdd(d.q, d.q), <<sticky>>),
                    Exp2(x) - Exp2(y) - 59))

(***************************************************************************)
(* DOUBLE objects: each step is one of the calls of double_tests.h on      *)
(* DOUBLEs, native doubles and INT32s drawn from the values of the tests,  *)
(* made in a test that has no DOUBLE yet.  dbl keeps the arguments of the  *)
(* call and what it gave, until the test returns.                          *)
(***************************************************************************)
\* how many of the values below are used
NumDoubles == 20

\* binary64 bit patterns as <<bits 63..48, 47..32, 31..16, 15..0>>
DoublePatterns ==
    << <<0, 0, 0, 0>>,                              \* 0.0
       <<\h3FF0, 0, 0, 0>>,                         \* 1.0
       <<\h4000, 0, 0, 0>>,                         \* 2.0
       <<\h4008, 0, 0, 0>>,                         \* 3.0
       <<\h4014, 0, 0, 0>>,                         \* 5.0
       <<\h4018, 0, 0, 0>>,                         \* 6.0
       <<\h4024, 0, 0, 0>>,                         \* 10.0
       <<\h4028, 0, 0, 0>>,                         \* 12.0
       <<\h4034, 0, 0, 0>>,                         \* 20.0
       <<\h3FE0, 0, 0, 0>>,                         \* 0.5
       <<\h3FF8, 0, 0, 0>>,                         \* 1.5
       <<\hBFF0, 0, 0, 0>>,                         \* -1.0
       <<\hC004, 0, 0, 0>>,                         \* -2.5
       <<\h3FFE, \h6666, \h6666, \h6666>>,          \* 1.9
       <<\h4059, \h2000, 0, 0>>,                    \* 100.5
       <<\h3F50, \h624D, \hD2F1, \hA9FC>>,          \* 0.001
       <<\h408F, \h4000, 0, 0>>,                    \* 1000.0
       <<\h4009, \h21F9, \hF01B, \h866E>>,          \* 3.14159
       <<\h8000, 0, 0, 0>>,                         \* -0.0
       <<\hC059, \h2000, 0, 0>>,                    \* -100.5
       <<\h4059, 0, 0, 0>>,                         \* 100.0
       <<\h4090, 0, 0, 0>>,                         \* 1024.0
       <<\hBFFE, \h6666, \h6666, \h6666>>,          \* -1.9
       <<\h3FEF, \hF7CE, \hD916, \h872B>> >>        \* 0.999

\* the same values as native doubles: <<sign, exponent, mantissa>>
NativePatterns ==
    << <<0, 0, <<0, 0, 0, 0, 0, 0, 0>> >>,          \* 0.0
       <<0, 1023, <<0, 0, 0, 0, 0, 0, 0>> >>,       \* 1.0
       <<0, 1024, <<0, 0, 0, 0, 0, 0, 0>> >>,       \* 2.0
       <<0, 1024, <<0, 0, 0, 0, 0, 0, 8>> >>,       \* 3.0
       <<0, 1025, <<0, 0, 0, 0, 0, 0, 4>> >>,       \* 5.0
       <<0, 1025, <<0, 0, 0, 0, 0, 0, 8>> >>,       \* 6.0
       <<0, 1026, <<0, 0, 0, 0, 0, 0, 4>> >>,       \* 10.0
       <<0, 1026, <<0, 0, 0, 0, 0, 0, 8>> >>,       \* 12.0
       <<0, 1027, <<0, 0, 0, 0, 0, 0, 4>> >>,       \* 20.0
       <<0, 1022, <<0, 0, 0, 0, 0, 0, 0>> >>,       \* 0.5
       <<0, 1023, <<0, 0, 0, 0, 0, 0, 8>> >>,       \* 1.5
       <<1, 1023, <<0, 0, 0, 0, 0, 0, 0>> >>,       \* -1.0
       <<1, 1024, <<0, 0, 0, 0, 0, 0, 4>> >>,       \* -2.5
       <<0, 1023, <<102, 102, 102, 102, 102, 102, 14>> >>, \* 1.9
       <<0, 1029, <<0, 0, 0, 0, 0, 32, 9>> >>,      \* 100.5
       <<0, 1013, <<252, 169, 241, 210, 77, 98, 0>> >>, \* 0.001
       <<0, 1032, <<0, 0, 0, 0, 0, 64, 15>> >>,     \* 1000.0
       <<0, 1024, <<110, 134, 27, 240, 249, 33, 9>> >>, \* 3.14159
       <<1, 0, <<0, 0, 0, 0, 0, 0, 0>> >>,          \* -0.0
       <<1, 1029, <<0, 0, 0, 0, 0, 32, 9>> >>,      \* -100.5
       <<0, 1029, <<0, 0, 0, 0, 0, 0, 9>> >>,       \* 100.0
       <<0, 1033, <<0, 0, 0, 0, 0, 0, 0>> >>,       \* 1024.0
       <<1, 1023, <<102, 102, 102, 102, 102, 102, 14>> >>, \* -1.9
       <<0, 1022, <<43, 135, 22, 217, 206, 247, 15>> >> >> \* 0.999

Doubles ==
    {DOUBLE(Word(q[1], q[2]), Word(q[3], q[4])) :
        q \in {DoublePatterns[n] :
                 n \in {m \in 1 .. Len(DoublePatterns) : m <= NumDoubles}}}

Natives ==
    {[sign |-> q[1], exponent |-> q[2], mantissa |-> q[3]] :
        q \in {NativePatterns[n] :
                 n \in {m \in 1 .. Len(NativePatterns) : m <= NumDoubles}}}

\* INT32 arguments: those of the integer operators, the values of the
\* tests, the largest and the smallest INT32
Int32s ==
    Operands32 \cup {Word(0, 100), Word(0, 1024), Word(\hFFFF, \hFF9C),
                     Word(\h7FFF, \hFFFF), Word(\h8000, 0)}

InitDouble ==
    /\ IntIdle
    /\ lit = LitIdle
    /\ res = ResIdle
    /\ rel = RelIdle
    /\ dbl = DblIdle

\* DOUBLE a;
DblDefault ==
    /\ dbl.op = "none"
    /\ dbl' = [DblIdle EXCEPT !.op = "DOUBLE()", !.result = DOUBLE(W0, W0)]
    /\ UNCHANGED <<intVars, lit, res, rel>>

\* DOUBLE c(UINT64(high, low)); and DOUBLE d(high, low);
DblFromBits ==
    /\ dbl.op = "none"
    /\ \E form \in {"DOUBLE(UINT64)", "DOUBLE(UINT32, UINT32)"}, d \in Doubles :
         dbl' = [DblIdle EXCEPT !.op = form,
                                !.bits = d.bits,
                                !.result = DOUBLE(d.bits.high, d.bits.low)]
    /\ UNCHANGED <<intVars, lit, res, rel>>

\* DOUBLE b = x; double back = (double)b;
DblFromNative ==
    /\ dbl.op = "none"
    /\ \E x \in Natives :
         dbl' = [DblIdle EXCEPT !.op = "DOUBLE(double)",
                                !.native = x,
                                !.result = DOUBLE_FromNative(x),
                                !.back = DOUBLE_ToNative(DOUBLE_FromNative(x))]
    /\ UNCHANGED <<intVars, lit, res, rel>>

\* DOUBLE d(INT32(n)); INT32 back = (INT32)d;
DblFromINT32 ==
    /\ dbl.op = "none"
    /\ \E n \in Int32s :
         dbl' = [DblIdle EXCEPT !.op = "DOUBLE(INT32)",
                                !.n = n,
                                !.result = DOUBLE_FromINT32(n),
                                !.int = DOUBLE_ToINT32(DOUBLE_FromINT32(n))]
    /\ UNCHANGED <<intVars, lit, res, rel>>

\* INT32 i = (INT32)d; for a d of magnitude below 2^31
DblToINT32 ==
    /\ dbl.op = "none"
    /\ \E d \in Doubles :
         /\ DOUBLE_ToNative(d).exponent < 1023 + 31
         /\ dbl' = [DblIdle EXCEPT !.op = "INT32",
                                   !.this = d,
                                   !.int = DOUBLE_ToINT32(d)]
    /\ UNCHANGED <<intVars, lit, res, rel>>

\* what this o other gives
DblApply(o, this, other) ==
    IF o \in {"+", "+="} THEN DOUBLE_OpAdd(this, other)
    ELSE IF o \in {"-", "-="} THEN DOUBLE_OpSub(this, other)
    ELSE IF o \in {"*", "*="} THEN DOUBLE_OpMul(this, other)
    ELSE DOUBLE_OpDiv(this, other)

\* DOUBLE c = a o b; the divisor of / is not zero
DblBinary ==
    /\ dbl.op = "none"
    /\ \E o \in {"+", "-", "*", "/"}, this \in Doubles, other \in Doubles :
         /\ o = "/" => DOUBLE_ToNative(other).exponent # 0
         /\ dbl' = [DblIdle EXCEPT !.op = o,
                                   !.this = this,
                                   !.other = other,
                                   !.result = DblApply(o, this, other)]
    /\ UNCHANGED <<intVars, lit, res, rel>>

\* g o= a; this is g before the call and result is g after it
DblCompound ==
    /\ dbl.op = "none"
    /\ \E o \in {"+=", "-=", "*=", "/="}, this \in Doubles, other \in Doubles :
         /\ o = "/=" => DOUBLE_ToNative(other).exponent # 0
         /\ dbl' = [DblIdle EXCEPT !.op = o,
                                   !.this = this,
                                   !.other = other,
                                   !.result = DblApply(o, this, other)]
    /\ UNCHANGED <<intVars, lit, res, rel>>

\* the test returns and its DOUBLEs are gone
DblReturn ==
    /\ dbl.op # "none"
    /\ dbl' = DblIdle
    /\ UNCHANGED <<intVars, lit, res, rel>>

SpecDouble ==
    InitDouble /\ [][DblDefault \/ DblFromBits \/ DblFromNative \/ DblFromINT32
                       \/ DblToINT32 \/ DblBinary \/ DblCompound
                       \/ DblReturn]_vars

(***************************************************************************)
(* Properties of the integer operators                                     *)
(***************************************************************************)
AllOnes64 == [high |-> WAllOnes, low |-> WAllOnes]
Min64 == [high |-> Word(\h8000, 0), low |-> W0]

\* the carry out of the low words of a + b: 1 iff a.low + b.low >= 2^32
LowCarry(x, y) == Digit(NatAdd(Digits32(x.low), Digits32(y.low)), 5)

\* C1: for both classes and all bit patterns a, b, operator+ returns
\* (a + b) mod 2^64 and operator- returns (a - b) mod 2^64, the number r
\* below 2^64 with (r + b) mod 2^64 = a; the high word of a sum is
\* a.high + b.high plus the carry out of the low words, once.
C1_AddSubMod64 ==
    /\ op = "+" =>
        /\ Value(ret) = Mod64(NatAdd(Value(a), Value(b)))
        /\ Digits32(ret.high) =
              NatModPow2(NatAdd(NatAdd(Digits32(a.high), Digits32(b.high)),
                                <<LowCarry(a, b)>>), 32)
    /\ op = "-" => Mod64(NatAdd(Value(ret), Value(b))) = Value(a)

\* a sum whose low words carry into a high word that is not just the sum of
\* the high words, computed by INT64
C1_Witness ==
    /\ cls = "INT64"
    /\ op = "+"
    /\ LowCarry(a, b) = 1
    /\ ret.high # Add32(a.high, b.high)

\* C2: UINT64 a * b is the low 64 bits of the product of the two numbers.
C2_MulLow64 ==
    (cls = "UINT64" /\ op = "*") =>
        Value(ret) = Mod64(NatMul(Value(a), Value(b)))

\* two factors without a zero byte (all ten partial products count) whose
\* product does not fit 64 bits
C2_Witness ==
    /\ cls = "UINT64"
    /\ op = "*"
    /\ \A n \in 1 .. 8 : Value(a)[n] # 0 /\ Value(b)[n] # 0
    /\ NatLe(NatPow2(64), NatMul(Value(a), Value(b)))
    /\ ret.high # W0
    /\ ret.low # W0

\* C3: for UINT64 a and b # 0, with q = a / b and r = a % b:
\* a = q * b + r as numbers (nothing wraps), r < b, and the remainder the
\* loop of operator/ is left with is the one operator% returns.
C3_DivMod ==
    (cls = "UINT64" /\ op \in {"/", "%"} /\ b # Zero64) =>
        LET q == UINT64_OpDiv(a, b)
            r == UINT64_OpMod(a, b)
        IN  /\ ret = IF op = "/" THEN q ELSE r
            /\ NatEq(NatAdd(NatMul(Value(q), Value(b)), Value(r)), Value(a))
            /\ NatLt(Value(r), Value(b))
            /\ DivLoopAll(a, b).remainder = r

\* a division with a quotient of more than 32 bits and a remainder
C3_Witness ==
    /\ cls = "UINT64"
    /\ op = "/"
    /\ b # Zero64
    /\ ret.high # W0
    /\ UINT64_OpMod(a, b) # Zero64

\* C4: dividing by zero yields zero: x / 0, x % 0, x /= 0, x %= 0 of both
\* classes, and the overloads taking a UINT32, an int or an INT32 zero.
C4_DivByZero ==
    /\ (op \in {"/", "%", "/=", "%="} /\ b = Zero64) => ret = Zero64
    /\ (op \in {"/=", "%="} /\ b = Zero64) => self = Zero64
    /\ (op \in {"/UINT32", "/int", "/INT32", "%UINT32", "%int", "%INT32"} /\ v = W0)
          => ret = Zero64

\* a non-zero object divided in place by zero
C4_Witness ==
    /\ op = "/="
    /\ a # Zero64
    /\ b = Zero64
    /\ self = Zero64

\* C5: for INT64 a and b # 0, (a / b) * b + (a % b) = a in 64-bit
\* two's-complement arithmetic.
C5_SignedDivModIdentity ==
    (cls = "INT64" /\ op = "/" /\ b # Zero64) =>
        INT64_OpAdd(INT64_OpMul(ret, b), INT64_OpMod(a, b)) = a

\* the smallest INT64 divided by -1
C5_Witness ==
    /\ cls = "INT64"
    /\ op = "/"
    /\ a = Min64
    /\ b = AllOnes64
    /\ ret = Min64

\* C6: for UINT64 a and b, (a + b) - b = a.
C6_AddThenSub ==
    (cls = "UINT64" /\ op = "+") => UINT64_OpSub(ret, b) = a

\* a sum that wraps past 2^64, with a borrow when b is taken off again
C6_Witness ==
    /\ cls = "UINT64"
    /\ op = "+"
    /\ NatLe(NatPow2(64), NatAdd(Value(a), Value(b)))
    /\ Lt32(ret.low, b.low)

\* C7: for UINT64 a and b # 0 with a * b < 2^64, (a * b) / b = a.
C7_MulThenDiv ==
    (/\ cls = "UINT64"
     /\ op = "*"
     /\ b # Zero64
     /\ NatLt(NatMul(Value(a), Value(b)), NatPow2(64))) =>
        UINT64_OpDiv(ret, b) = a

\* two factors above 1 whose product needs more than 32 bits and fits 64
C7_Witness ==
    /\ cls = "UINT64"
    /\ op = "*"
    /\ NatLt(NatMul(Value(a), Value(b)), NatPow2(64))
    /\ NatLt(<<1>>, Value(a))
    /\ NatLt(<<1>>, Value(b))
    /\ ret.high # W0
    /\ ret.low # W0

\* C8: for both classes, a << 0 = a, a << s = 0 for s >= 64, and for
\* 0 < s < 64 a << s is (a * 2^s) mod 2^64.
C8_ShiftLeft ==
    op = "<<" =>
        /\ s = 0 => ret = a
        /\ s >= 64 => ret = Zero64
        /\ (0 < s /\ s < 64) =>
              Value(ret) = Mod64(NatMul(Value(a), NatPow2(s)))

\* a shift by less than 32 that moves bits of the low word into a high
\* word that was zero
C8_Witness ==
    /\ cls = "INT64"
    /\ op = "<<"
    /\ 0 < s
    /\ s < 32
    /\ a.high = W0
    /\ ret.high # W0

\* C9: for UINT64 a and 0 <= s <= 63, (a << s) >> s = a mod 2^(64 - s).
C9_ShiftLeftThenRight ==
    (cls = "UINT64" /\ op = "<<" /\ 0 <= s /\ s <= 63) =>
        NatEq(Value(UINT64_OpShr(ret, s)), NatModPow2(Value(a), 64 - s))

\* a round trip that clears set bits at the top and keeps set bits below
C9_Witness ==
    /\ cls = "UINT64"
    /\ op = "<<"
    /\ 0 < s
    /\ s <= 63
    /\ UINT64_OpShr(ret, s) # a
    /\ UINT64_OpShr(ret, s) # Zero64

\* the number v + 2^63 for the two's-complement value v of the pattern x
Biased(x) == [Value(x) EXCEPT ![8] = (@ + 128) % 256]

\* r = floor(x / 2^k) for two's-complement patterns r and x, stated on the
\* biased numbers: r * 2^k <= x < (r + 1) * 2^k
SignedFloorDivPow2(r, x, k) ==
    LET lower == NatAdd(NatMul(Biased(r), NatPow2(k)), NatPow2(63))
        shifted == NatAdd(Biased(x), NatPow2(63 + k))
    IN  /\ NatLe(lower, shifted)
        /\ NatLt(shifted, NatAdd(lower, NatPow2(k)))

\* r = floor(x / 2^k) for unsigned patterns r and x
UnsignedFloorDivPow2(r, x, k) ==
    LET lower == NatMul(Value(r), NatPow2(k))
    IN  /\ NatLe(lower, Value(x))
        /\ NatLt(Value(x), NatAdd(lower, NatPow2(k)))

\* bit n of r is bit n + k of x, and fill where x has no such bit
ShiftedRightWithFill(r, x, k, fill) ==
    \A n \in 0 .. 63 :
        NatBit(Value(r), n) = IF n + k <= 63 THEN NatBit(Value(x), n + k) ELSE fill

\* C10: for 0 <= s <= 63, INT64 a >> s is floor(a / 2^s) with the sign bit
\* filling the vacated bits, and UINT64 a >> s is floor(a / 2^s) with zeros
\* filling them; for s >= 64, INT64 gives 0 or -1 by the sign of a and
\* UINT64 gives 0.
C10_ShiftRight ==
    /\ (cls = "INT64" /\ op = ">>" /\ 0 <= s /\ s <= 63) =>
          /\ SignedFloorDivPow2(ret, a, s)
          /\ ShiftedRightWithFill(ret, a, s, NatBit(Value(a), 63))
    /\ (cls = "INT64" /\ op = ">>" /\ s >= 64) =>
          ret = IF NatBit(Value(a), 63) = 1 THEN AllOnes64 ELSE Zero64
    /\ (cls = "UINT64" /\ op = ">>" /\ 0 <= s /\ s <= 63) =>
          /\ UnsignedFloorDivPow2(ret, a, s)
          /\ ShiftedRightWithFill(ret, a, s, 0)
    /\ (cls = "UINT64" /\ op = ">>" /\ s >= 64) => ret = Zero64

\* a negative INT64 shifted by more than 32 and less than 63, with both
\* sign bits and bits of a in the low word of the result
C10_Witness ==
    /\ cls = "INT64"
    /\ op = ">>"
    /\ NatBit(Value(a), 63) = 1
    /\ 32 < s
    /\ s < 63
    /\ ret.high = WAllOnes
    /\ ret.low # WAllOnes

\* a < b in the numeric order of the class: unsigned for UINT64, two's
\* complement for INT64 (the order of the numbers v + 2^63)
NumericLess(c, x, y) ==
    IF c = "UINT64" THEN NatLt(Value(x), Value(y))
    ELSE NatLt(Biased(x), Biased(y))

\* C11: the six comparison operators of both classes answer by the numeric
\* order of the 64-bit values (unsigned for UINT64, signed for INT64): <
\* and > are the order, == is equality, != its negation; exactly one of
\* a < b, a == b, a > b holds; a <= b is (a < b or a == b) and a >= b is
\* (a > b or a == b).
C11_ComparisonOrder ==
    op = "compare" =>
        /\ cmp.lt = NumericLess(cls, a, b)
        /\ cmp.gt = NumericLess(cls, b, a)
        /\ cmp.eq = NatEq(Value(a), Value(b))
        /\ cmp.ne = ~cmp.eq
        /\ Cardinality({k \in {"lt", "eq", "gt"} : cmp[k]}) = 1
        /\ cmp.le = (cmp.lt \/ cmp.eq)
        /\ cmp.ge = (cmp.gt \/ cmp.eq)

\* a negative INT64 below a non-negative one, although its bit pattern is the
\* larger unsigned number
C11_Witness ==
    /\ cls = "INT64"
    /\ op = "compare"
    /\ Neg32(a.high)
    /\ ~Neg32(b.high)
    /\ cmp.lt
    /\ cmp.le
    /\ ~cmp.ge

Matches(modules, q) ==
    {p \in (1 .. Len(modules)) \X (1 .. 2) :
        /\ modules[p[1]].nameHash = q[1]
        /\ p[2] <= Len(modules[p[1]].names)
        /\ modules[p[1]].names[p[2]] = q[2]}

\* C13: Resolve returns, for a module whose name hash is moduleNameHash and
\* an export of it whose name hash is functionNameHash, found at the same
\* index of the name table and the address table, the module's base plus
\* the export's RVA, which is not null; when no module or no export
\* matches, it returns the not-found result.
C13_ResolveAddress ==
    res.pc = "resolved" =>
        IF Matches(res.modules, res.query) = {}
        THEN res.result = NotFound
        ELSE /\ res.result # NotFound
             /\ \E p \in Matches(res.modules, res.query) :
                  /\ NatEq(Digits32(res.result),
                           NatAdd(Digits32(res.modules[p[1]].base),
                                  Digits32(res.modules[p[1]].rvas[p[2]])))
                  /\ \A r \in Matches(res.modules, res.query) :
                        r[1] > p[1] \/ (r[1] = p[1] /\ r[2] >= p[2])

\* the second export of a module that is second in the list is found, in a
\* list whose first module has the same name but not the export
C13_Witness ==
    /\ res.pc = "resolved"
    /\ Len(res.modules) = 2
    /\ res.modules[1].nameHash = res.query[1]
    /\ Matches(res.modules, res.query) = {<<2, 2>>}
    /\ res.result # NotFound

C16_InitializeFirst ==
    rel.pc >= 1 =>
        /\ \A k \in 1 .. Len(rel.trace) : (rel.trace[k] = "Initialize") = (k = 1)
        /\ rel.inits = IF rel.trace = <<>> THEN 0 ELSE 1

\* _start has run to ExitProcess through all seven suites
C16_Witness ==
    /\ rel.pc = Len(StartSteps) + 1
    /\ rel.trace[Len(rel.trace)] = "ExitProcess"
    /\ rel.inits = 1
    /\ Cardinality({rel.trace[k] : k \in 1 .. Len(rel.trace)}) = 10
    /\ ~rel.allPassed
    /\ rel.exit = 1

(***************************************************************************)
(* Properties of DOUBLE                                                    *)
(***************************************************************************)
\* an 11-bit or 12-bit field as a number
Field(f) == <<f % 256, f \div 256>>

\* the 64 bits of the binary64 value of fields x, as a number:
\* sign * 2^63 + exponent * 2^52 + mantissa
NativeBits(x) ==
    NatAdd(x.mantissa, NatMul(Field(x.sign * 2048 + x.exponent), NatPow2(52)))

Magnitude32(n) ==
    IF Neg32(n) THEN NatSubFrom(NatPow2(32), Digits32(n), 1, 0) ELSE Digits32(n)

\* the index of the highest set bit of a number m, 0 < m < 2^32
HighestBit(m) ==
    CHOOSE k \in 0 .. 31 : NatLe(NatPow2(k), m) /\ NatLt(m, NatPow2(k + 1))

\* C18: for every INT32 n, DOUBLE(n) is the binary64 encoding of n: all
\* zero bits for n = 0; else the sign bit set iff n < 0, the exponent field
\* 1023 + k for k the index of the highest set bit of |n|, and the
\* mantissa the bits of |n| below bit k, left-aligned (as numbers,
\* bits + 2^52 = (2048 * sign + 1023 + k) * 2^52 + |n| * 2^(52 - k)); and
\* converting that DOUBLE back to INT32 returns n.
C18_Int32Encoding ==
    dbl.op = "DOUBLE(INT32)" =>
        /\ dbl.int = dbl.n
        /\ IF dbl.n = W0 THEN DOUBLE_Bits(dbl.result) = Zero64
           ELSE LET m == Magnitude32(dbl.n)
                    k == HighestBit(m)
                    sign == IF Neg32(dbl.n) THEN 1 ELSE 0
                IN  NatEq(NatAdd(Value(DOUBLE_Bits(dbl.result)), NatPow2(52)),
                          NatAdd(NatMul(Field(2048 * sign + 1023 + k), NatPow2(52)),
                                 NatMul(m, NatPow2(52 - k))))

\* a negative INT32 that is no power of two, made a DOUBLE with bits in
\* both words of its mantissa and converted back
C18_Witness ==
    /\ dbl.op = "DOUBLE(INT32)"
    /\ Neg32(dbl.n)
    /\ dbl.n \notin {Word(\hFFFF, \hFFFF), Word(\h8000, 0)}
    /\ dbl.result.bits.high[1] >= \h8000
    /\ dbl.result.bits.high[2] # 0
    /\ dbl.result.bits.low # W0
    /\ dbl.int = dbl.n

\* the fields of the 64 bits of d, read off the number they are: sign,
\* exponent field, and sig the mantissa with the hidden bit of a normal
\* number; d is (-1)^sign * sig * 2^(exponent - 1075), zero for exponent 0
Decode(d) ==
    LET n == Value(d.bits)
        top == NatShr(n, 52)
        exponent == Digit(top, 1) + 256 * (Digit(top, 2) % 8)
    IN  [sign |-> Digit(top, 2) \div 8,
         exponent |-> exponent,
         sig |-> IF exponent = 0 THEN NatModPow2(n, 52)
                 ELSE NatAdd(NatModPow2(n, 52), NatPow2(52))]

\* the DOUBLE whose upper 16 bits are h and whose other bits are zero
Short(h) == [bits |-> [high |-> Word(h, 0), low |-> W0]]

\* C19: conversion of a DOUBLE d, |d| < 2^31, to INT32 truncates toward
\* zero: the result i has |i| <= |d| < |i| + 1 and, unless it is 0, the
\* sign of d; |d| < 1 gives 0; 1.9 gives 1, 100.5 gives 100, 0.5 gives 0
\* and -1.0 gives -1.
C19_TruncatesTowardZero ==
    dbl.op = "INT32" =>
        LET x == Decode(dbl.this)
            m == Magnitude32(dbl.int)
        IN  /\ x.exponent < 1023 => dbl.int = W0
            /\ x.exponent >= 1023 =>
                  /\ NatLe(NatMul(m, NatPow2(1075 - x.exponent)), x.sig)
                  /\ NatLt(x.sig, NatMul(NatAdd(m, <<1>>),
                                         NatPow2(1075 - x.exponent)))
                  /\ Neg32(dbl.int) = (x.sign = 1)
            /\ dbl.this.bits = [high |-> Word(\h3FFE, \h6666),
                                low |-> Word(\h6666, \h6666)] =>
                  dbl.int = Word(0, 1)
            /\ dbl.this.bits = [high |-> Word(\h4059, \h2000), low |-> W0] =>
                  dbl.int = Word(0, 100)
            /\ dbl.this = Short(\h3FE0) => dbl.int = W0
            /\ dbl.this = Short(\hBFF0) => dbl.int = Word(\hFFFF, \hFFFF)

\* -100.5 converted to -100
C19_Witness ==
    /\ dbl.op = "INT32"
    /\ dbl.this.bits = [high |-> Word(\hC059, \h2000), low |-> W0]
    /\ dbl.int = Word(\hFFFF, \hFF9C)

\* the binary64 value of fields r (as Decode gives them) is
\* (-1)^sign * n * 2^e / den rounded: zero if n is, else of that sign,
\* within half a unit of its last place of it, and with an even last bit
\* if exactly half a unit away
IsRounded(sign, n, e, den, r) ==
    IF NatBitLength(n) = 0 THEN r.exponent = 0 /\ NatBitLength(r.sig) = 0
    ELSE LET er == r.exponent - 1075
             c == IF e <= er - 1 THEN e ELSE er - 1
             exact == NatMul(n, NatPow2(e - c))
             given == NatMul(NatMul(r.sig, den), NatPow2(er - c))
             half == NatMul(den, NatPow2(er - 1 - c))
             diff == IF NatLt(exact, given) THEN NatSubFrom(given, exact, 1, 0)
                     ELSE NatSubFrom(exact, given, 1, 0)
         IN  /\ r.exponent # 0
             /\ r.sign = sign
             /\ NatLe(diff, half)
             /\ NatEq(diff, half) => r.sig[1] % 2 = 0

\* r is x + y for fields x, y that are not zero
IsSum(x, y, r) ==
    LET e == (IF x.exponent <= y.exponent THEN x.exponent ELSE y.exponent) - 1075
        nx == NatMul(x.sig, NatPow2(x.exponent - 1075 - e))
        ny == NatMul(y.sig, NatPow2(y.exponent - 1075 - e))
    IN  IF x.sign = y.sign THEN IsRounded(x.sign, NatAdd(nx, ny), e, <<1>>, r)
        ELSE IF NatLt(nx, ny)
        THEN IsRounded(y.sign, NatSubFrom(ny, nx, 1, 0), e, <<1>>, r)
        ELSE IF NatLt(ny, nx)
        THEN IsRounded(x.sign, NatSubFrom(nx, ny, 1, 0), e, <<1>>, r)
        ELSE r.sign = 0 /\ r.exponent = 0 /\ NatBitLength(r.sig) = 0

\* C20: the arithmetic of DOUBLE is that of IEEE-754 binary64, in the
\* binary and in the compound form alike: the result of +, -, * and / is
\* the exact sum, difference, product and quotient rounded to nearest;
\* x + 0.0 and x * 1.0 are x and x * 0.0 is zero; 2.0 + 3.0 is 5.0,
\* 3.0 - 2.0 is 1.0, 2.0 * 3.0 is 6.0 and 6.0 / 2.0 is 3.0, bit for bit.
C20_Arithmetic ==
    dbl.op \in {"+", "-", "*", "/", "+=", "-=", "*=", "/="} =>
        LET x == Decode(dbl.this)
            y == Decode(dbl.other)
            r == Decode(dbl.result)
            add == dbl.op \in {"+", "+="}
            sub == dbl.op \in {"-", "-="}
            mul == dbl.op \in {"*", "*="}
            div == dbl.op \in {"/", "/="}
            ys == IF sub THEN [y EXCEPT !.sign = 1 - @] ELSE y
        IN  /\ (add \/ sub) =>
                  IF x.exponent = 0 /\ y.exponent = 0
                  THEN r.exponent = 0 /\ NatBitLength(r.sig) = 0
                  ELSE IF y.exponent = 0 THEN dbl.result = dbl.this
                  ELSE IF x.exponent = 0 THEN r = ys
                  ELSE IsSum(x, ys, r)
            /\ mul =>
                  /\ IsRounded((x.sign + y.sign) % 2,
                               IF x.exponent = 0 \/ y.exponent = 0 THEN <<0>>
                               ELSE NatMul(x.sig, y.sig),
                               x.exponent + y.exponent - 2150, <<1>>, r)
                  /\ dbl.other = Short(\h3FF0) => dbl.result = dbl.this
                  /\ dbl.other = Short(0) => dbl.result.bits.low = W0
                                               /\ dbl.result.bits.high[2] = 0
                                               /\ dbl.result.bits.high[1] % \h8000 = 0
            /\ div =>
                  IsRounded((x.sign + y.sign) % 2,
                            IF x.exponent = 0 THEN <<0>> ELSE x.sig,
                            x.exponent - y.exponent, y.sig, r)
            /\ (add /\ dbl.this = Short(\h4000) /\ dbl.other = Short(\h4008)) =>
                  dbl.result = Short(\h4014)
            /\ (sub /\ dbl.this = Short(\h4008) /\ dbl.other = Short(\h4000)) =>
                  dbl.result = Short(\h3FF0)
            /\ (mul /\ dbl.this = Short(\h4000) /\ dbl.other = Short(\h4008)) =>
                  dbl.result = Short(\h4018)
            /\ (div /\ dbl.this = Short(\h4018) /\ dbl.other = Short(\h4000)) =>
                  dbl.result = Short(\h4008)
            /\ (add /\ dbl.this = Short(\h4024) /\ dbl.other = Short(\h4000)) =>
                  dbl.result = Short(\h4028)
            /\ (sub /\ dbl.this = Short(\h4028) /\ dbl.other = Short(\h4000)) =>
                  dbl.result = Short(\h4024)
            /\ (mul /\ dbl.this = Short(\h4024) /\ dbl.other = Short(\h4000)) =>
                  dbl.result = Short(\h4034)
            /\ (div /\ dbl.this = Short(\h4034) /\ dbl.other = Short(\h4000)) =>
                  dbl.result = Short(\h4024)

\* 0.001 += 1000.0: a sum that has to be rounded, and is neither operand
C20_Witness ==
    /\ dbl.op = "+="
    /\ dbl.this.bits = [high |-> Word(\h3F50, \h624D),
                        low |-> Word(\hD2F1, \hA9FC)]
    /\ dbl.other.bits = [high |-> Word(\h408F, \h4000), low |-> W0]
    /\ dbl.result # dbl.other
    /\ dbl.result.bits.low # W0

----------------------------------------------------------------------------
\* Properties of the operator families

\* the class with the other signedness
Twinned(c) == IF c = "UINT64" THEN "INT64" ELSE "UINT64"

\* C21: apart from multiply, divide, shift-right and the ordering
\* comparisons, every operator gives the same bit pattern for INT64 and
\* UINT64: what a call of +, -, &, |, ^, ~, <<, prefix or postfix ++ and --,
\* ==, != or +=, -=, &=, |=, ^=, <<= returned and left in *this is what the
\* same operator of the other class gives for the same operand bits
C21_SameBitPattern ==
    LET t == Twinned(cls)
    IN  /\ op \in TwinOps => ret = Twin(t, op, a, b) /\ self = a
        /\ \A o \in TwinOps :
               op = o \o "=" => self = Compound(t, o, a, b) /\ ret = self
        /\ op = "~" => ret = Not64(t, a) /\ self = a
        /\ op = "<<" => ret = Shift(t, "<<", a, s) /\ self = a
        /\ op = "<<=" => self = ShiftAssign(t, "<<", a, s) /\ ret = self
        /\ \A o \in StepOps :
               /\ op = o \o "x" => self = Step(t, o, a) /\ ret = self
               /\ op = "x" \o o => self = Step(t, o, a) /\ ret = a
        /\ op = "compare" =>
               /\ cmp.eq = IF t = "UINT64" THEN UINT64_OpEq(a, b)
                           ELSE INT64_OpEq(a, b)
               /\ cmp.ne = IF t = "UINT64" THEN UINT64_OpNe(a, b)
                           ELSE INT64_OpNe(a, b)

\* an INT64 -= that borrowed from a negative high word
C21_Witness ==
    /\ cls = "INT64"
    /\ op = "-="
    /\ Lt32(a.low, b.low)
    /\ Neg32(a.high)
    /\ self = UINT64_OpSub(a, b)

\* |x| of a signed x as an unsigned value (2^63 for the smallest INT64), and
\* the signed value of sign and magnitude m
Magnitude(x) == IF Neg32(x.high) THEN UINT64_OpSub(Zero64, x) ELSE x
Signed(negative, m) == IF negative THEN UINT64_OpSub(Zero64, m) ELSE m

\* C22: INT64 a * b and a / b equal the unsigned operator applied to the
\* absolute values with the sign restored, the result negated when exactly
\* one operand is negative, the smallest INT64 included.
C22_SignRestored ==
    (cls = "INT64" /\ op \in {"*", "/"}) =>
        ret = Signed(Neg32(a.high) # Neg32(b.high),
                     IF op = "*"
                     THEN UINT64_OpMul(Magnitude(a), Magnitude(b))
                     ELSE UINT64_OpDiv(Magnitude(a), Magnitude(b)))

\* the smallest INT64 times a positive number, of which the product keeps
\* bits
C22_Witness ==
    /\ cls = "INT64"
    /\ op = "*"
    /\ a = Min64
    /\ ~Neg32(b.high)
    /\ ret = Min64

\* C23: ++ and -- are exact modulo 2^64: the high word is incremented exactly
\* when the low word wraps to 0 and decremented exactly when the low word
\* was 0; the postfix forms return the value before the step and the prefix
\* forms the value after it; n increments followed by n decrements restore
\* the original value.
C23_IncrementDecrement ==
    /\ op \in {"++x", "x++"} =>
        /\ Value(self) = Mod64(NatAdd(Value(b), <<1>>))
        /\ self.high = IF self.low = W0 THEN Add32(b.high, W1) ELSE b.high
    /\ op \in {"--x", "x--"} =>
        /\ Value(b) = Mod64(NatAdd(Value(self), <<1>>))
        /\ self.high = IF b.low = W0 THEN Sub32(b.high, W1) ELSE b.high
    /\ op \in {"++x", "--x"} => ret = self
    /\ op \in {"x++", "x--"} => ret = b
    /\ (op \in {"--x", "x--"} /\ s = 0) => self = a

\* an INT64 whose low word wrapped on the way up and was zero before the
\* last postfix decrement, back at its first value
C23_Witness ==
    /\ cls = "INT64"
    /\ op = "x--"
    /\ s = 0
    /\ a.low = WAllOnes
    /\ b.low = W0
    /\ b.high # a.high
    /\ self = a

\* |x| of a signed x as a number
Abs(x) == Value(Magnitude(x))

\* C24: for INT64 a and b # 0, a / b is the exact quotient truncated toward
\* zero: |a / b| * |b| <= |a| < (|a / b| + 1) * |b|, negative only when
\* exactly one operand is; a % b is zero or has the sign of a, and
\* |a % b| = |a| - |a / b| * |b| < |b|; the smallest INT64 divided by -1
\* wraps to the smallest INT64 with remainder 0.
C24_TruncatedDivision ==
    (cls = "INT64" /\ op \in {"/", "%"} /\ b # Zero64) =>
        LET q == IF op = "/" THEN ret ELSE INT64_OpDiv(a, b)
            r == IF op = "%" THEN ret ELSE INT64_OpMod(a, b)
            wraps == a = Min64 /\ b = AllOnes64
        IN  /\ NatLe(NatMul(Abs(q), Abs(b)), Abs(a))
            /\ NatLt(Abs(a), NatMul(NatAdd(Abs(q), <<1>>), Abs(b)))
            /\ Neg32(q.high) => wraps \/ Neg32(a.high) # Neg32(b.high)
            /\ wraps => q = Min64 /\ r = Zero64
            /\ r = Zero64 \/ Neg32(r.high) = Neg32(a.high)
            /\ NatEq(NatAdd(NatMul(Abs(q), Abs(b)), Abs(r)), Abs(a))
            /\ NatLt(Abs(r), Abs(b))

\* a negative dividend and a positive divisor with a negative quotient and
\* a negative remainder
C24_Witness ==
    /\ cls = "INT64"
    /\ op = "/"
    /\ Neg32(a.high)
    /\ ~Neg32(b.high)
    /\ Neg32(ret.high)
    /\ Neg32(INT64_OpMod(a, b).high)

\* the 64-bit value of a 32-bit operand: zero-extended for UINT64,
\* sign-extended for INT64
Widened(c, val) ==
    [high |-> IF c = "INT64" /\ val[1] >= 2^15 THEN WAllOnes ELSE W0, low |-> val]

\* the six comparisons of x with a 64-bit y
Compare(c, x, y) ==
    IF c = "UINT64"
    THEN [eq |-> UINT64_OpEq(x, y), ne |-> UINT64_OpNe(x, y),
          lt |-> UINT64_OpLt(x, y), le |-> UINT64_OpLe(x, y),
          gt |-> UINT64_OpGt(x, y), ge |-> UINT64_OpGe(x, y)]
    ELSE [eq |-> INT64_OpEq(x, y), ne |-> INT64_OpNe(x, y),
          lt |-> INT64_OpLt(x, y), le |-> INT64_OpLe(x, y),
          gt |-> INT64_OpGt(x, y), ge |-> INT64_OpGe(x, y)]

\* C25: every mixed-width overload equals the 64-bit operator on the widened
\* operand: UINT64 x op UINT32 v is x op UINT64(0, v) for +, -, *, /, %, &,
\* |, ^ and the six comparisons; INT64 x op INT32 v is x op the
\* sign-extended v for +, -, *, /, % and the six comparisons.
C25_MixedWidth ==
    /\ \A o \in BinaryOps :
           (op = o \o "32" /\ o \in MixedOps(cls)) =>
               ret = Binary(cls, o, a, Widened(cls, v)) /\ self = a
    /\ op = "compare32" => cmp = Compare(cls, a, Widened(cls, v))

\* a UINT64 with a high word times a UINT32, the high word of the product
\* taking part of high * val
C25_Witness ==
    /\ cls = "UINT64"
    /\ op = "*32"
    /\ Mul32(a.high, v) # W0
    /\ Shr32(v, 16) # W0
    /\ ret.high # UINT64_OpMul(UINT64(W0, a.low), UINT64(W0, v)).high

\* C26: every UINT64 overload that takes an int reads it as
\* UINT64((unsigned long long)val): x == val holds exactly when x equals that
\* sign-extended value and x != val is its negation, the same operand value
\* that x % val, x / val and x & val use.
C26_IntOperand ==
    /\ op = "compareInt" =>
        /\ cmp.eq = UINT64_OpEq(a, UINT64_FromInt(v))
        /\ cmp.ne = ~UINT64_OpEq(a, UINT64_FromInt(v))
    /\ \A o \in IntOps :
           op = o \o "int" => ret = Binary("UINT64", o, a, UINT64_FromInt(v))

\* C27: each compound assignment leaves in a the value of (old a) op b for
\* +, -, *, /, %, &, |, ^ and returns it; a <<= s and a >>= s leave
\* (old a) << s and (old a) >> s for every int s, negative, zero, below 32,
\* from 32 to 63 and 64 or more.
C27_CompoundAssignment ==
    /\ \A o \in BinaryOps :
           op = o \o "=" => self = Binary(cls, o, a, b) /\ ret = self
    /\ \A o \in ShiftOps :
           op = o \o "=" => self = Shift(cls, o, a, s) /\ ret = self

\* a UINT64 >>= by 32 or more that moved bits of the high word into the low
\* word and cleared the high word
C27_Witness ==
    /\ cls = "UINT64"
    /\ op = ">>="
    /\ s >= 32
    /\ s < 64
    /\ a.high # W0
    /\ self.high = W0
    /\ self.low # W0

\* C28: for a non-negative a, a shift by a negative count or by 64 or more,
\* left or right, by operator or by shift assignment, of INT64 or UINT64,
\* yields zero.
C28_ShiftOutOfRange ==
    ((cls = "UINT64" \/ ~Neg32(a.high)) /\ (s < 0 \/ s >= 64)) =>
        /\ op \in {"<<", ">>"} => ret = Zero64
        /\ op \in {"<<=", ">>="} => self = Zero64

----------------------------------------------------------------------------
\* Properties of the division loop

\* the bits 63 .. i + 1 of x as a number: the dividend bits consumed when
\* the loop variable is i
Consumed(x, i) == NatShr(Value(x), i + 1)

\* C30: in the loops of UINT64 operator/ and operator%, for every dividend
\* and every non-zero divisor, divisors of 2^63 and more included: after
\* each iteration the remainder is below the divisor and is the number made
\* of the dividend bits consumed so far modulo the divisor (that number is
\* a multiple of the divisor plus the remainder); the remainder is below
\* 2^63 before every shift, so the shift by one bit discards no set bit;
\* the loop makes exactly 64 iterations, for the bits 63 down to 0, and
\* ends with the remainder operator% returns.
C30_DivisionLoop ==
    LET q == NatShr(Value(IF op = "/" /\ s = -1 THEN ret ELSE UINT64_OpDiv(a, b)),
                    s + 1)
    IN  /\ NatLt(Value(self), Value(b))
        /\ NatEq(NatAdd(NatMul(q, Value(b)), Value(self)), Consumed(a, s))
        /\ s >= 0 => ~Neg32(self.high)
        /\ s \in (-1) .. 63
        /\ v = Word(0, 63 - s)
        /\ s = -1 => self = UINT64_OpMod(a, b)

\* a loop that ended, after 64 iterations, with a remainder of 2^63 or more
\* under a divisor of more than 2^63
C30_Witness ==
    /\ s = -1
    /\ v = Word(0, 64)
    /\ Neg32(b.high)
    /\ Neg32(self.high)

----------------------------------------------------------------------------
\* Properties of the packed storage

\* the byte at bit offset 8 * j of a 32-bit word, j in 0 .. 3
ByteOf32(w, j) ==
    LET half == IF j >= 2 THEN w[1] ELSE w[2]
    IN  IF j % 2 = 1 THEN half \div 256 ELSE half % 256

\* the byte at byte index k of the words: in word k / WordBytes at bit
\* offset (k mod WordBytes) * 8
StoredByte(WordBytes, words, k) ==
    LET x == words[k \div WordBytes + 1]
        j == k % WordBytes
    IN  IF j >= 4 THEN ByteOf32(x.high, j - 4) ELSE ByteOf32(x.low, j)

\* bytes to write over stored ones
ByteSamples == {0, \hA5, \hFF}

\* C29: the packed storage is the little-endian byte serialization of the
\* elements: byte b of element i is the byte at byte index
\* k = i * sizeof(TChar) + b, in word k / WordBytes at bit offset
\* (k mod WordBytes) * 8; a SetByte changes the 8 bits of its byte and no
\* others; there are exactly ceil(N * sizeof(TChar) / WordBytes) words, and
\* the bytes of the last word past N * sizeof(TChar) are zero. These words
\* are what operator const VOID * and Words() hand out.
C29_PackedLayout ==
    lit.pc \in {"built", "indexed"} =>
        LET WB == lit.WordBytes
            CB == lit.CharBytes
            size == Len(lit.src) * CB
            count == Len(lit.words)
        IN  /\ count * WB >= size
            /\ (count - 1) * WB < size
            /\ \A k \in 0 .. size - 1 :
                   StoredByte(WB, lit.words, k)
                       = ByteOf32(lit.src[k \div CB + 1], k % CB)
            /\ \A k \in size .. count * WB - 1 : StoredByte(WB, lit.words, k) = 0
            /\ WB = 4 => \A n \in 1 .. count : lit.words[n].high = W0
            /\ \A k \in 0 .. count * WB - 1 : \A data \in ByteSamples :
                   LET set == SetByte(WB, lit.words, k, data)
                   IN  /\ Len(set) = count
                       /\ \A j \in 0 .. count * WB - 1 :
                              StoredByte(WB, set, j)
                                  = IF j = k THEN data
                                    ELSE StoredByte(WB, lit.words, j)

\* three 2-byte elements in 8-byte words: one word, its last two bytes left
\* zero, the top byte of the last element set
C29_Witness ==
    /\ lit.pc = "built"
    /\ lit.WordBytes = 8
    /\ lit.CharBytes = 2
    /\ Len(lit.src) = 3
    /\ Len(lit.words) = 1
    /\ StoredByte(8, lit.words, 5) = \hFF
    /\ StoredByte(8, lit.words, 4) = \h7F
    /\ StoredByte(8, lit.words, 7) = 0

====
